---- MODULE Spec2Model ----
(***************************************************************************)
(* Model of src/gumloop/add_links_fixed.py: function(report_text,          *)
(* quotes_data, user_question, context_summary), the quote-attribution     *)
(* pipeline (normalize, extract, match in two tiers, rewrite, stats).      *)
(*                                                                         *)
(* Strings are sequences of characters; a character is a TLA+ string.      *)
(* Non-ASCII characters are written as named tokens:                       *)
(*   "a_circ" U+00E2, "euro" U+20AC, "oe" U+0153, "tm" U+2122,             *)
(*   "stilde" U+02DC, "ctilde" U+0303, "brvbar" U+00A6, "cent" U+00A2,     *)
(*   "permil" U+2030, "circ" U+02C6, "A_tilde" U+00C3, "emdash" U+2014,    *)
(*   "A_circ" U+00C2, "hellip" U+2026, "bull" U+2022, "approx" U+2248,     *)
(*   "times" U+00D7, "ldq" U+201C, "rdq" U+201D, "rsq" U+2019.             *)
(* Offsets are Python offsets (0-based, end exclusive).                    *)
(***************************************************************************)
EXTENDS Integers, Sequences, FiniteSets, TLC

VARIABLES
    report_in,        \* argument report_text, as passed by the caller
    quotes_data,      \* argument quotes_data, as passed by the caller
    user_question,    \* argument user_question
    context_summary,  \* argument context_summary
    run,              \* "first" or "second" invocation on these arguments
    choices,          \* what random.choice returned so far in this invocation
    prev,             \* what the first invocation returned, and its choices
    pc,               \* position of the invocation in function()
    report_text,      \* local report_text after line 68
    quotes_list,      \* local quotes_list
    report_quotes,    \* local report_quotes (Candidate Quotes)
    bucket_keys,      \* keys of db_quotes_by_subreddit, in insertion order
    buckets,          \* db_quotes_by_subreddit: key -> list of records
    all_matches,      \* local all_matches
    fb,               \* the running find_best_matches call
    processed_text,   \* local processed_text
    linked_count,     \* local linked_count
    rw_i,             \* index of the next match of the replacement loop
    out_md,           \* returned markdown
    out_stats,        \* returned stats (the dict that json.dumps encodes)
    out_html          \* returned html

vars == <<report_in, quotes_data, user_question, context_summary, run,
          choices, prev, pc, report_text, quotes_list, report_quotes,
          bucket_keys, buckets, all_matches, fb, processed_text, linked_count,
          rw_i, out_md, out_stats, out_html>>

----------------------------------------------------------------------------
(* Bounds of the checked inputs *)

\* number of segments a report is assembled from
MaxSegs == 2
\* number of records of the source-quote collection
MaxSources == 2

----------------------------------------------------------------------------
(* Strings *)

None == "None"

RECURSIVE Cat(_)
Cat(ss) == IF ss = <<>> THEN <<>> ELSE Head(ss) \o Cat(Tail(ss))

\* text[i:j] of Python (0-based, end exclusive, clipped to the text)
Slice(t, i, j) ==
    LET lo == IF i < 0 THEN 0 ELSE i
        hi == IF j > Len(t) THEN Len(t) ELSE j
    IN  IF hi <= lo THEN <<>> ELSE SubSeq(t, lo + 1, hi)

\* pattern p occurs in t at 1-based index i
OccursAt(t, p, i) ==
    /\ i + Len(p) - 1 <= Len(t)
    /\ \A k \in 1..Len(p) : t[i + k - 1] = p[k]

\* the least element of a non-empty set of integers
Min(S) == CHOOSE x \in S : \A y \in S : x <= y

\* the text from 1-based index i on, every later occurrence of old replaced
RECURSIVE ReplaceFrom(_, _, _, _)
ReplaceFrom(t, old, new, i) ==
    LET occ == {k \in i..Len(t) : OccursAt(t, old, k)}
    IN  IF occ = {} THEN SubSeq(t, i, Len(t))
        ELSE SubSeq(t, i, Min(occ) - 1) \o new
             \o ReplaceFrom(t, old, new, Min(occ) + Len(old))

\* str.replace(old, new) for a non-empty old: leftmost, non-overlapping
StrReplace(t, old, new) == ReplaceFrom(t, old, new, 1)

----------------------------------------------------------------------------
(* 4.1 Text Normalizer: fix_encoding_issues *)

\* the replacements dict, in its insertion order
replacements == <<
    << <<"a_circ", "euro", "T", "M", "t">>,      <<"'", "t">> >>,
    << <<"a_circ", "euro", "T", "M", "m">>,      <<"'", "m">> >>,
    << <<"a_circ", "euro", "T", "M", "s">>,      <<"'", "s">> >>,
    << <<"a_circ", "euro", "T", "M", "v", "e">>, <<"'", "v", "e">> >>,
    << <<"a_circ", "euro", "T", "M", "r", "e">>, <<"'", "r", "e">> >>,
    << <<"a_circ", "euro", "T", "M", "l", "l">>, <<"'", "l", "l">> >>,
    << <<"a_circ", "euro", "T", "M", "d">>,      <<"'", "d">> >>,
    << <<"a_circ", "euro", "T", "M">>,           <<"'">> >>,
    << <<"a_circ", "euro", "oe">>,               <<"\"">> >>,
    << <<"a_circ", "euro">>,                     <<"\"">> >>,
    << <<"a_circ", "euro", "tm">>,               <<"'">> >>,
    << <<"a_circ", "euro", "stilde">>,           <<"'">> >>,
    << <<"a_circ", "euro", " ", "ctilde">>,      <<"\"">> >>,
    << <<"a_circ", "euro", "\"">>,               <<"emdash">> >>,
    << <<"a_circ", "euro", "brvbar">>,           <<"hellip">> >>,
    << <<"a_circ", "euro", "cent">>,             <<"bull">> >>,
    << <<"a_circ", "permil", "circ">>,           <<"approx">> >>,
    << <<"A_tilde", "emdash">>,                  <<"times">> >>,
    << <<"A_circ", " ">>,                        <<" ">> >>,
    << <<"A_circ">>,                             <<>> >> >>

RECURSIVE ApplyReplacements(_, _)
ApplyReplacements(text, k) ==
    IF k > Len(replacements) THEN text
    ELSE ApplyReplacements(
             StrReplace(text, replacements[k][1], replacements[k][2]), k + 1)

fix_encoding_issues(text) ==
    IF text = <<>> THEN text ELSE ApplyReplacements(text, 1)

----------------------------------------------------------------------------
(* Character classes *)

UpperSeq == <<"A", "B", "C", "D", "E", "F", "G", "H", "I", "J", "K", "L", "M",
              "N", "O", "P", "Q", "R", "S", "T", "U", "V", "W", "X", "Y", "Z",
              "A_circ", "A_tilde">>
LowerSeq == <<"a", "b", "c", "d", "e", "f", "g", "h", "i", "j", "k", "l", "m",
              "n", "o", "p", "q", "r", "s", "t", "u", "v", "w", "x", "y", "z",
              "a_circ", "a_tilde">>

\* [A-Z] of the sentence pattern (ASCII only)
AsciiUpper == {UpperSeq[k] : k \in 1..26}

Digits == {"0", "1", "2", "3", "4", "5", "6", "7", "8", "9"}

\* \w
WordChars == {UpperSeq[k] : k \in 1..Len(UpperSeq)}
             \cup {LowerSeq[k] : k \in 1..Len(LowerSeq)}
             \cup Digits \cup {"_", "oe"}

\* \s, and what str.strip() removes
Spaces == {" ", "\n", "\t"}

\* str.lower() of one character
LowerChar(c) ==
    IF \E k \in 1..Len(UpperSeq) : UpperSeq[k] = c
    THEN LowerSeq[CHOOSE k \in 1..Len(UpperSeq) : UpperSeq[k] = c]
    ELSE c

Lower(t) == [k \in 1..Len(t) |-> LowerChar(t[k])]

\* str.strip()
Strip(t) ==
    LET keep == {k \in 1..Len(t) : t[k] \notin Spaces}
    IN  IF keep = {} THEN <<>>
        ELSE SubSeq(t, CHOOSE k \in keep : \A m \in keep : k <= m,
                       CHOOSE k \in keep : \A m \in keep : k >= m)

\* re.sub(r'\s+', ' ', t): every run of spaces becomes one " "
RunStart(p) == p[2]
CollapseSpaces(t) ==
    LET marked == [k \in 1..Len(t) |->
                      IF t[k] \in Spaces
                      THEN <<" ", k = 1 \/ t[k - 1] \notin Spaces>>
                      ELSE <<t[k], TRUE>>]
        kept   == SelectSeq(marked, RunStart)
    IN  [k \in 1..Len(kept) |-> kept[k][1]]

\* the class of line 97: straight double, straight single, and the two smart
\* double quotes (held as ASCII quotes in the file)
QuoteMarks == {"\"", "'", "ldq", "rdq"}

clean_quote_for_matching(quote) ==
    LET s     == Strip(quote)
        lead  == Len(s) >= 1 /\ s[1] \in QuoteMarks
        trail == Len(s) >= 2 /\ s[Len(s)] \in QuoteMarks
        core  == Slice(s, IF lead THEN 1 ELSE 0,
                          IF trail THEN Len(s) - 1 ELSE Len(s))
    IN  Strip(CollapseSpaces(core))

----------------------------------------------------------------------------
(* 4.4 Similarity ratio: difflib.SequenceMatcher(None, a, b).ratio() *)

\* autojunk: elements of b held "popular" and left out of b2j
AutoJunkLen == 200
Popular(b) ==
    IF Len(b) >= AutoJunkLen
    THEN {c \in {b[k] : k \in 1..Len(b)} :
             Cardinality({k \in 1..Len(b) : b[k] = c}) > (Len(b) \div 100) + 1}
    ELSE {}

\* length of the common run of a[i:] and b[j:] inside [.., ahi) x [.., bhi)
\* that uses only elements of b kept in b2j (0-based i, j)
RunLen(a, b, pop, i, j, ahi, bhi) ==
    LET lim == IF ahi - i < bhi - j THEN ahi - i ELSE bhi - j
    IN  Min({x \in 0..(lim - 1) :
                a[i + x + 1] # b[j + x + 1] \/ b[j + x + 1] \in pop}
            \cup {lim})

RECURSIVE ExtendLeft(_, _, _, _, _)
ExtendLeft(a, b, m, alo, blo) ==
    IF m[1] > alo /\ m[2] > blo /\ a[m[1]] = b[m[2]]
    THEN ExtendLeft(a, b, <<m[1] - 1, m[2] - 1, m[3] + 1>>, alo, blo)
    ELSE m

RECURSIVE ExtendRight(_, _, _, _, _)
ExtendRight(a, b, m, ahi, bhi) ==
    IF m[1] + m[3] < ahi /\ m[2] + m[3] < bhi
       /\ a[m[1] + m[3] + 1] = b[m[2] + m[3] + 1]
    THEN ExtendRight(a, b, <<m[1], m[2], m[3] + 1>>, ahi, bhi)
    ELSE m

\* find_longest_match(alo, ahi, blo, bhi): <<i, j, k>>, the longest block, of
\* those the one starting earliest in a, of those the one starting earliest in b
find_longest_match(a, b, pop, alo, ahi, blo, bhi) ==
    LET pairs == {p \in (alo..(ahi - 1)) \X (blo..(bhi - 1)) :
                     a[p[1] + 1] = b[p[2] + 1] /\ b[p[2] + 1] \notin pop}
        len   == [p \in pairs |-> RunLen(a, b, pop, p[1], p[2], ahi, bhi)]
        best  == CHOOSE p \in pairs :
                     \A q \in pairs :
                         \/ len[p] > len[q]
                         \/ /\ len[p] = len[q]
                            /\ \/ p[1] < q[1]
                               \/ p[1] = q[1] /\ p[2] <= q[2]
    IN  IF pairs = {} THEN <<alo, blo, 0>>
        ELSE ExtendRight(a, b,
                 ExtendLeft(a, b, <<best[1], best[2], len[best]>>, alo, blo),
                 ahi, bhi)

\* the summed size of get_matching_blocks()
RECURSIVE matched_chars(_, _, _, _, _, _, _)
matched_chars(a, b, pop, alo, ahi, blo, bhi) ==
    LET m == find_longest_match(a, b, pop, alo, ahi, blo, bhi)
    IN  IF m[3] = 0 THEN 0
        ELSE m[3]
             + (IF alo < m[1] /\ blo < m[2]
                THEN matched_chars(a, b, pop, alo, m[1], blo, m[2]) ELSE 0)
             + (IF m[1] + m[3] < ahi /\ m[2] + m[3] < bhi
                THEN matched_chars(a, b, pop, m[1] + m[3], ahi, m[2] + m[3], bhi)
                ELSE 0)

\* the ratio without the factor 2: matched / (len(a) + len(b))
similarity_ratio_Halved(x, y) ==
    LET a == Strip(Lower(x))
        b == Strip(Lower(y))
    IN  IF Len(a) + Len(b) = 0 THEN [num |-> 1, den |-> 1]
        ELSE [num |-> matched_chars(a, b, Popular(b), 0, Len(a), 0, Len(b)),
              den |-> Len(a) + Len(b)]

\* a ratio is kept exact, as num / den (ratio() gives 1.0 for two empty strings)
similarity_ratio(x, y) ==
    LET a == Strip(Lower(x))
        b == Strip(Lower(y))
    IN  IF Len(a) + Len(b) = 0 THEN [num |-> 1, den |-> 1]
        ELSE [num |-> 2 * matched_chars(a, b, Popular(b), 0, Len(a), 0, Len(b)),
              den |-> Len(a) + Len(b)]

\* similarity >= pct / 100
RatioGE(r, pct) == 100 * r.num >= pct * r.den

\* x > y, x >= y - 0.02 on exact ratios
RatioGT(x, y) == x.num * y.den > y.num * x.den
RatioNear(x, y) == 50 * x.num * y.den >= 50 * y.num * x.den - x.den * y.den

----------------------------------------------------------------------------
(* 4.2 Quote Extractor: extract_quotes_from_report *)

QuoteMinLen == 20
QuoteMaxLen == 500
SentenceMinLen == 30
SentenceMaxLen == 400

\* the class of line 108, whose smart quotes the file holds as ASCII quotes:
\* left and right smart double quote and the smart single quote
SmartQuotes == {"ldq", "rdq", "rsq"}

\* a pattern  [open] ([^stop]{lo,hi}) [stop]
quote_patterns == <<
    [open |-> {"\""}, stop |-> {"\""}, lo |-> QuoteMinLen, hi |-> QuoteMaxLen],
    [open |-> SmartQuotes, stop |-> SmartQuotes,
     lo |-> QuoteMinLen, hi |-> QuoteMaxLen],
    [open |-> {"'"}, stop |-> {"'"}, lo |-> QuoteMinLen, hi |-> QuoteMaxLen] >>

sentence_patterns == <<
    [open |-> AsciiUpper, stop |-> {".", "!", "?"},
     lo |-> SentenceMinLen, hi |-> SentenceMaxLen] >>

\* number of characters of t from 1-based index i on that are not in stop
RunNot(t, i, stop) ==
    Min({k \in i..Len(t) : t[k] \in stop} \cup {Len(t) + 1}) - i

\* the end offset of the match of pat at offset pos, -1 when there is none.
\* The body excludes exactly the closing class, so the only possible body is
\* the whole run up to the next closing character.
MatchAt(t, pos, pat) ==
    IF pos < Len(t) /\ t[pos + 1] \in pat.open
    THEN LET n == RunNot(t, pos + 2, pat.stop)
         IN  IF pos + 1 + n < Len(t) /\ n >= pat.lo /\ n <= pat.hi
             THEN pos + n + 2
             ELSE -1
    ELSE -1

\* re.finditer: leftmost non-overlapping matches, as <<start, end>>
RECURSIVE FindIter(_, _, _)
FindIter(t, pat, pos) ==
    LET at == {p \in pos..(Len(t) - 1) : MatchAt(t, p, pat) >= 0}
    IN  IF at = {} THEN <<>>
        ELSE <<<<Min(at), MatchAt(t, Min(at), pat)>>>>
             \o FindIter(t, pat, MatchAt(t, Min(at), pat))

PronounWords == {
    <<"i">>,
    <<"m", "e">>,
    <<"m", "y">>,
    <<"w", "e">>,
    <<"o", "u", "r">>,
    <<"u", "s">>,
    <<"f", "r", "u", "s", "t", "r", "a", "t", "e", "d">>,
    <<"l", "o", "v", "e">>,
    <<"h", "a", "t", "e">>,
    <<"n", "e", "e", "d">>,
    <<"w", "a", "n", "t">>,
    <<"w", "i", "s", "h">>,
    <<"h", "o", "p", "e">>}

\* re.search(r'\b(I|me|...|hope)\b', s, re.IGNORECASE)
HasPronoun(s) ==
    LET l == Lower(s)
    IN  \E w \in PronounWords : \E p \in 1..Len(s) :
            /\ OccursAt(l, w, p)
            /\ (p = 1 \/ s[p - 1] \notin WordChars)
            /\ (p + Len(w) > Len(s) \/ s[p + Len(w)] \notin WordChars)

QuoteHit(t, m) ==
    [text           |-> clean_quote_for_matching(Slice(t, m[1] + 1, m[2] - 1)),
     original_match |-> Slice(t, m[1], m[2]),
     start_pos      |-> m[1],
     end_pos        |-> m[2]]

SentenceHit(t, m) ==
    [text           |-> clean_quote_for_matching(Slice(t, m[1], m[2])),
     original_match |-> Slice(t, m[1], m[2]),
     start_pos      |-> m[1],
     end_pos        |-> m[2]]

MinLenOK(q) == Len(q.text) >= QuoteMinLen
PronounOK(q) == HasPronoun(q.text)

QuoteHits(t, pat) ==
    LET ms == FindIter(t, pat, 0)
    IN  SelectSeq([k \in 1..Len(ms) |-> QuoteHit(t, ms[k])], MinLenOK)

SentenceHits(t, pat) ==
    LET ms == FindIter(t, pat, 0)
    IN  SelectSeq([k \in 1..Len(ms) |-> SentenceHit(t, ms[k])], PronounOK)

\* sorted(quotes, key=start_pos): stable
RECURSIVE InsertAsc(_, _)
InsertAsc(sorted, q) ==
    IF sorted = <<>> THEN <<q>>
    ELSE IF Head(sorted).start_pos <= q.start_pos
         THEN <<Head(sorted)>> \o InsertAsc(Tail(sorted), q)
         ELSE <<q>> \o sorted

RECURSIVE SortByStart(_)
SortByStart(qs) ==
    IF qs = <<>> THEN <<>>
    ELSE InsertAsc(SortByStart(SubSeq(qs, 1, Len(qs) - 1)), qs[Len(qs)])

\* every hit is kept, whatever its text
Unique_All(qs, seen_texts) == qs

\* unique_quotes: the first hit of every cleaned text
RECURSIVE Unique(_, _)
Unique(qs, seen_texts) ==
    IF qs = <<>> THEN <<>>
    ELSE IF Head(qs).text \in seen_texts
         THEN Unique(Tail(qs), seen_texts)
         ELSE <<Head(qs)>> \o Unique(Tail(qs), seen_texts \cup {Head(qs).text})

AllHits(text) ==
    Cat([k \in 1..Len(quote_patterns) |-> QuoteHits(text, quote_patterns[k])])
    \o Cat([k \in 1..Len(sentence_patterns) |->
               SentenceHits(text, sentence_patterns[k])])

extract_quotes_from_report(text) == Unique(SortByStart(AllHits(text)), {})

----------------------------------------------------------------------------
(* 4.3 Source Index, 4.4 matching procedure *)

\* dict.get(key, default)
Get(d, key, default) == IF key \in DOMAIN d THEN d[key] ELSE default

\* keys of db_quotes_by_subreddit in insertion order
RECURSIVE SubredditKeys(_, _)
SubredditKeys(ql, seen) ==
    IF ql = <<>> THEN <<>>
    ELSE LET sr == Get(Head(ql), "subreddit", "unknown")
         IN  IF sr \in seen THEN SubredditKeys(Tail(ql), seen)
             ELSE <<sr>> \o SubredditKeys(Tail(ql), seen \cup {sr})

InSubreddit(ql, sr) ==
    LET Here(q) == Get(q, "subreddit", "unknown") = sr
    IN  SelectSeq(ql, Here)

\* thresholds of the two passes, in hundredths
Tier1Threshold == 98
Tier2Threshold == 95

\* the loop over the pool ends after its first record
Candidates_FirstRecord(report_quote, db_quotes, used_db_quotes, threshold) ==
    LET scored == [k \in 1..Len(db_quotes) |->
                      [db_quote   |-> db_quotes[k],
                       similarity |-> similarity_ratio(
                           report_quote.text,
                           clean_quote_for_matching(
                               Get(db_quotes[k], "text", <<>>)))]]
        Keep(c) == /\ c.db_quote = db_quotes[1]
                   /\ Get(c.db_quote, "quote_id", None) \notin used_db_quotes
                   /\ RatioGE(c.similarity, threshold)
    IN  SelectSeq(scored, Keep)

\* the candidates list of one report quote: every unused record of the pool
\* that reaches the threshold, in pool order
Candidates(report_quote, db_quotes, used_db_quotes, threshold) ==
    LET scored == [k \in 1..Len(db_quotes) |->
                      [db_quote   |-> db_quotes[k],
                       similarity |-> similarity_ratio(
                           report_quote.text,
                           clean_quote_for_matching(
                               Get(db_quotes[k], "text", <<>>)))]]
        Keep(c) == /\ Get(c.db_quote, "quote_id", None) \notin used_db_quotes
                   /\ RatioGE(c.similarity, threshold)
    IN  SelectSeq(scored, Keep)

\* candidates.sort(key=similarity, reverse=True): stable
RECURSIVE InsertDesc(_, _)
InsertDesc(sorted, c) ==
    IF sorted = <<>> THEN <<c>>
    ELSE IF ~RatioGT(c.similarity, Head(sorted).similarity)
         THEN <<Head(sorted)>> \o InsertDesc(Tail(sorted), c)
         ELSE <<c>> \o sorted

RECURSIVE SortBySimilarity(_)
SortBySimilarity(cs) ==
    IF cs = <<>> THEN <<>>
    ELSE InsertDesc(SortBySimilarity(SubSeq(cs, 1, Len(cs) - 1)), cs[Len(cs)])

\* every candidate counts as a tie with the best
TopCandidates_All(sorted) == sorted

\* top_candidates: within 0.02 of the best score
TopCandidates(sorted) ==
    LET Near(c) == RatioNear(c.similarity, sorted[1].similarity)
    IN  SelectSeq(sorted, Near)

\* the chosen record is not marked
MarkUsed_Forgotten(used_db_quotes, db_quote) == used_db_quotes

\* a record without id is not marked
MarkUsed_IdOnly(used_db_quotes, db_quote) ==
    IF "quote_id" \in DOMAIN db_quote
    THEN used_db_quotes \cup {db_quote.quote_id}
    ELSE used_db_quotes

\* used_db_quotes after a match with the chosen record
MarkUsed(used_db_quotes, db_quote) ==
    used_db_quotes \cup {Get(db_quote, "quote_id", None)}

\* a call find_best_matches(report_quotes, db_quotes, threshold) at its start
StartCall(tier, b, cands, pool, threshold) ==
    [tier |-> tier, b |-> b, cands |-> cands, pool |-> pool,
     th |-> threshold, i |-> 1, used |-> {}, matches |-> <<>>]

NoCall == StartCall(0, 0, <<>>, <<>>, 0)

\* lines 189-195: the call after the report quote got the chosen candidate.
\* A match also notes the pass that made it (tier), which the code does not
\* store and nothing below reads but the properties.
Matched(call, report_quote, chosen_candidate) ==
    [call EXCEPT
        !.i = call.i + 1,
        !.matches = Append(call.matches,
            [report_quote |-> report_quote,
             db_quote     |-> chosen_candidate.db_quote,
             similarity   |-> chosen_candidate.similarity,
             tier         |-> call.tier]),
        !.used = MarkUsed(call.used, chosen_candidate.db_quote)]

\* the second pass takes every report quote again
Remaining_All(rqs, matches) == rqs

\* remaining_report_quotes of the second pass
Remaining(rqs, matches) ==
    LET matched_report_quotes ==
            {matches[k].report_quote.text : k \in 1..Len(matches)}
        Left(q) == q.text \notin matched_report_quotes
    IN  SelectSeq(rqs, Left)

\* all_matches.sort(key=start_pos, reverse=True): stable
RECURSIVE InsertByPos(_, _)
InsertByPos(sorted, m) ==
    IF sorted = <<>> THEN <<m>>
    ELSE IF Head(sorted).report_quote.start_pos >= m.report_quote.start_pos
         THEN <<Head(sorted)>> \o InsertByPos(Tail(sorted), m)
         ELSE <<m>> \o sorted

RECURSIVE SortMatches(_)
SortMatches(ms) ==
    IF ms = <<>> THEN <<>>
    ELSE InsertByPos(SortMatches(SubSeq(ms, 1, Len(ms) - 1)), ms[Len(ms)])

----------------------------------------------------------------------------
(* 4.5 Link Rewriter *)

linked_quote(match) ==
    <<"[">> \o match.report_quote.original_match \o <<"]", "(">>
    \o Get(match.db_quote, "url", <<"#">>) \o <<")">>

\* processed_text[:start_pos] + linked_quote + processed_text[end_pos:]
ReplaceSpan(text, match) ==
    Slice(text, 0, match.report_quote.start_pos)
    \o linked_quote(match)
    \o Slice(text, match.report_quote.end_pos, Len(text))

----------------------------------------------------------------------------
(* 4.8 Stats Reporter *)

\* str(n) for n >= 0
DigitSeq == <<"0", "1", "2", "3", "4", "5", "6", "7", "8", "9">>
RECURSIVE IntToStr(_)
IntToStr(n) ==
    IF n < 10 THEN <<DigitSeq[n + 1]>>
    ELSE IntToStr(n \div 10) \o <<DigitSeq[(n % 10) + 1]>>

\* p / q rounded to the nearest integer, ties to even
RoundHalfEven(p, q) ==
    LET fl == p \div q
        r  == p % q
    IN  IF 2 * r > q THEN fl + 1
        ELSE IF 2 * r = q THEN fl + (fl % 2)
        ELSE fl

\* linked_count / len(report_quotes) * 100, in tenths of a percent as :.1f
\* prints it
RateTenths(linked, total) == RoundHalfEven(linked * 1000, total)

\* the rate is printed with one decimal also when there is no report quote
match_rate_Uniform(linked, rqs) ==
    IF rqs # <<>>
    THEN LET t == RateTenths(linked, Len(rqs))
         IN  IntToStr(t \div 10) \o <<".", DigitSeq[(t % 10) + 1], "%">>
    ELSE <<"0", ".", "0", "%">>

\* f"{(linked_count/len(report_quotes)*100):.1f}%" if report_quotes else "0%"
match_rate(linked, rqs) ==
    IF rqs # <<>>
    THEN LET t == RateTenths(linked, Len(rqs))
         IN  IntToStr(t \div 10) \o <<".", DigitSeq[(t % 10) + 1], "%">>
    ELSE <<"0", "%">>

SampleMatch(m) ==
    [report_text |-> Slice(m.report_quote.text, 0, 100) \o <<".", ".", ".">>,
     db_text     |-> Slice(Get(m.db_quote, "text", <<>>), 0, 100)
                     \o <<".", ".", ".">>,
     similarity  |-> RoundHalfEven(1000 * m.similarity.num, m.similarity.den),
     subreddit   |-> Get(m.db_quote, "subreddit", "unknown")]

stats_dict(rqs, ql, linked, keys, matches) ==
    LET base == [total_quotes_in_report    |-> Len(rqs),
                 total_quotes_in_database  |-> Len(ql),
                 successful_matches        |-> linked,
                 match_rate                |-> match_rate(linked, rqs),
                 subreddits_analyzed       |-> keys,
                 similarity_threshold_used |->
                     "98% (subreddit-specific), 95% (cross-subreddit)"]
    IN  IF matches # <<>>
        THEN base @@ [sample_matches |->
                 [k \in 1..(IF Len(matches) < 3 THEN Len(matches) ELSE 3) |->
                     SampleMatch(matches[k])]]
        ELSE base

----------------------------------------------------------------------------
(* 4.6 Document Structurer: the heading patterns *)

\* the greatest element of a non-empty set of integers
Max(S) == CHOOSE x \in S : \A y \in S : x >= y

\* the element of a one-element set; { f(x) : x \in {e} } names the value of
\* e once, as an assignment to a local does
Only(S) == CHOOSE x \in S : TRUE

\* ^ under re.MULTILINE at offset p
LineStart(t, p) == p = 0 \/ t[p] = "\n"

\* number of characters of the class cls from offset p on
RunOf(t, p, cls) ==
    Min({k \in p..(Len(t) - 1) : t[k + 1] \notin cls} \cup {Len(t)}) - p

\* the tail \s*(\n|$) from offset e: the offset the match ends at, -1 when the
\* tail fails. \s* is greedy and gives characters back until a newline
\* follows; $ is left with the end of the text.
TailEnd(t, e) ==
    LET r  == e + RunOf(t, e, Spaces)
        nl == {k \in e..(r - 1) : t[k + 1] = "\n"}
    IN  IF r = Len(t) THEN r
        ELSE IF nl # {} THEN Max(nl) + 1
        ELSE -1

NoMatch == [ok |-> FALSE]

\* the match of ^\s*(#{..})\s+(.+?)\s*(\n|$) that starts at offset p, for the
\* allowed numbers of "#". \s+ is greedy: it ends at the first character that
\* is no space, or, when the spaces run to the end of the text, at the last
\* space that is no newline. (.+?) is lazy: it ends at the first offset of
\* the line from which the tail matches.
HeadingAt(t, p, counts) ==
    IF ~LineStart(t, p) THEN NoMatch
    ELSE
    LET s1    == p + RunOf(t, p, Spaces)
        n     == RunOf(t, s1, {"#"})
        h     == s1 + n
        s2max == h + RunOf(t, h, Spaces)
        back  == {k \in (h + 1)..(Len(t) - 1) : t[k + 1] # "\n"}
        s2    == IF s2max < Len(t) THEN s2max
                 ELSE IF back # {} THEN Max(back) ELSE -1
        eol   == s2 + RunNot(t, s2 + 1, {"\n"})
        e     == Min({x \in (s2 + 1)..eol : TailEnd(t, x) >= 0})
    IN  IF n \in counts /\ s2max > h /\ s2 >= 0
        THEN [ok |-> TRUE, start |-> p, end |-> TailEnd(t, e), hashes |-> n,
              text |-> Slice(t, s2, e)]
        ELSE NoMatch

\* re.search from offset pos on: the leftmost match
FirstHeading(t, pos, counts) ==
    LET at == {p \in pos..Len(t) : HeadingAt(t, p, counts).ok}
    IN  IF at = {} THEN NoMatch ELSE HeadingAt(t, Min(at), counts)

\* findall / the matches sub visits: leftmost, non-overlapping
RECURSIVE HeadingsFrom(_, _, _)
HeadingsFrom(t, pos, counts) ==
    Only({IF ~m.ok THEN <<>>
          ELSE <<m>> \o HeadingsFrom(t, m.end, counts) :
             m \in {FirstHeading(t, pos, counts)}})

\* r'^\s*#\s+(.+?)\s*(\n|$)'
TitleHashes == {1}
\* heading_pattern_toc, r'^\s*(#{2,3})\s+(.+?)\s*(\n|$)'
TocHashes == {2, 3}

\* the titles of summary_headings_pattern, lowercased (re.IGNORECASE)
SummaryTitles == {
    <<"e", "x", "e", "c", "u", "t", "i", "v", "e", " ", "s", "u", "m", "m",
      "a", "r", "y", " ", "&", " ", "d", "i", "r", "e", "c", "t", " ", "a",
      "n", "s", "w", "e", "r">>,
    <<"e", "x", "e", "c", "u", "t", "i", "v", "e", " ", "s", "u", "m", "m",
      "a", "r", "y">>,
    <<"k", "e", "y", " ", "t", "a", "k", "e", "a", "w", "a", "y", "s">>,
    <<"o", "v", "e", "r", "a", "l", "l", " ", "f", "i", "n", "d", "i", "n",
      "g", "s">>,
    <<"r", "e", "p", "o", "r", "t", " ", "s", "u", "m", "m", "a", "r", "y">>}

\* the match of summary_headings_pattern that starts at offset p. At most one
\* title matches with its tail: the two "Executive Summary" forms differ in
\* what follows "Summary".
SummaryAt(t, p) ==
    IF ~LineStart(t, p) THEN NoMatch
    ELSE
    LET s1   == p + RunOf(t, p, Spaces)
        n    == RunOf(t, s1, {"#"})
        h    == s1 + n
        s2   == h + RunOf(t, h, Spaces)
        ends == {s2 + Len(w) : w \in
                    {x \in SummaryTitles :
                        /\ OccursAt(Lower(t), x, s2 + 1)
                        /\ TailEnd(t, s2 + Len(x)) >= 0}}
    IN  IF n = 2 /\ s2 > h /\ ends # {}
        THEN [ok |-> TRUE, start |-> p, end |-> TailEnd(t, Max(ends))]
        ELSE NoMatch

FirstSummary(t) ==
    LET at == {p \in 0..Len(t) : SummaryAt(t, p).ok}
    IN  IF at = {} THEN NoMatch ELSE SummaryAt(t, Min(at))

\* r'^\s*##\s+' matches at offset p
H2At(t, p) ==
    /\ LineStart(t, p)
    /\ LET s1 == p + RunOf(t, p, Spaces)
       IN  RunOf(t, s1, {"#"}) = 2 /\ RunOf(t, s1 + 2, Spaces) >= 1

----------------------------------------------------------------------------
(* 4.6 Document Structurer: title, summary, table of contents *)

ResearchReport == <<"R", "e", "s", "e", "a", "r", "c", "h", " ",
                    "R", "e", "p", "o", "r", "t">>

\* the title is read but its line and the text before it stay in the body
TitleSplit_WholeBody(text) ==
    Only({IF title_match.ok
          THEN [doc_title |-> Strip(title_match.text), body |-> text]
          ELSE [doc_title |-> ResearchReport, body |-> text] :
             title_match \in {FirstHeading(text, 0, TitleHashes)}})

\* lines 263-271: doc_title and the text after the title line
TitleSplit(text) ==
    Only({IF title_match.ok
          THEN [doc_title |-> Strip(title_match.text),
                body      |-> Slice(text, title_match.end, Len(text))]
          ELSE [doc_title |-> ResearchReport, body |-> text] :
             title_match \in {FirstHeading(text, 0, TitleHashes)}})

\* the summary is kept separately but not taken out of the body
SummaryCut_Kept(body, summary_match, rest) ==
    LET h2s    == {p \in 0..Len(rest) : H2At(rest, p)}
        finish == IF h2s # {} THEN summary_match.end + Min(h2s) ELSE Len(body)
    IN  [executive_summary_md |->
             Strip(Slice(body, summary_match.start, finish)),
         body |-> body]

\* lines 278-287: the summary runs to the next level-2 heading of the rest,
\* or to the end of the body
SummaryCut(body, summary_match, rest) ==
    LET h2s    == {p \in 0..Len(rest) : H2At(rest, p)}
        finish == summary_match.end + Min(h2s)
    IN  IF h2s # {}
        THEN [executive_summary_md |->
                  Strip(Slice(body, summary_match.start, finish)),
              body |-> Slice(body, 0, summary_match.start)
                       \o Slice(body, finish, Len(body))]
        ELSE [executive_summary_md |->
                  Strip(Slice(body, summary_match.start, Len(body))),
              body |-> Slice(body, 0, summary_match.start)]

\* lines 273-287: executive_summary_md and the body without the summary
SummarySplit(body) ==
    Only({IF ~summary_match.ok
          THEN [executive_summary_md |-> <<>>, body |-> body]
          ELSE Only({SummaryCut(body, summary_match, rest) :
                        rest \in {Slice(body, summary_match.end, Len(body))}}) :
             summary_match \in {FirstSummary(body)}})

\* the loop stops one entry late
max_toc_entries_Late == 20 + 1

max_toc_entries == 20
SlugMaxLen == 50

\* re.sub(r'[-\s]+', '-', t): every run of hyphens and spaces becomes one "-"
SlugSeparators == Spaces \cup {"-"}
HyphenateRuns(t) ==
    LET marked == [k \in 1..Len(t) |->
                      IF t[k] \in SlugSeparators
                      THEN <<"-", k = 1 \/ t[k - 1] \notin SlugSeparators>>
                      ELSE <<t[k], TRUE>>]
        kept   == SelectSeq(marked, RunStart)
    IN  [k \in 1..Len(kept) |-> kept[k][1]]

\* str.strip('-')
StripHyphens(t) ==
    LET keep == {k \in 1..Len(t) : t[k] # "-"}
    IN  IF keep = {} THEN <<>> ELSE SubSeq(t, Min(keep), Max(keep))

\* lines 313-316: the slug of a heading text, before the collision loop
BaseSlug(h_text, n_entries) ==
    LET Kept(c) == c \in WordChars \cup Spaces \cup {"-"}
        slug == Slice(StripHyphens(HyphenateRuns(
                    SelectSeq(Strip(Lower(h_text)), Kept))), 0, SlugMaxLen)
    IN  IF slug = <<>>
        THEN <<"s", "e", "c", "t", "i", "o", "n", "-">> \o IntToStr(n_entries)
        ELSE slug

\* the loop stops at the first slug it finds unused, without a look at the
\* counter reached
FreeSlug_FirstSuffix(slug, original_slug, counter, used) ==
    IF slug \in used
    THEN original_slug \o <<"-">> \o IntToStr(counter)
    ELSE slug

\* a used slug gets a suffix beyond every counter the loop could reach
FreeSlug_Beyond(slug, original_slug, counter, used) ==
    IF slug \in used
    THEN original_slug \o <<"-">> \o IntToStr(Cardinality(used) + counter)
    ELSE slug

\* lines 318-322: while the slug is used, try original_slug-counter
RECURSIVE FreeSlug(_, _, _, _)
FreeSlug(slug, original_slug, counter, used) ==
    IF slug \in used
    THEN FreeSlug(original_slug \o <<"-">> \o IntToStr(counter),
                  original_slug, counter + 1, used)
    ELSE slug

\* section_num_str of a heading, from the counters after the heading
SectionNumber(level_idx, counters) ==
    IF level_idx = 0
    THEN IntToStr(counters[1]) \o <<".">>
    ELSE IntToStr(counters[1]) \o <<".">> \o IntToStr(counters[2])

\* the second counter is not reset by a level-2 heading
Count_NoReset(level_idx, counters) ==
    IF level_idx = 0 THEN <<counters[1] + 1, counters[2]>>
    ELSE <<counters[1], counters[2] + 1>>

\* section_counters after a heading of this level
Count(level_idx, counters) ==
    IF level_idx = 0 THEN <<counters[1] + 1, 0>>
    ELSE <<counters[1], counters[2] + 1>>

\* lines 301-329: the entry of a heading, given the entries before it and
\* the counters after it
TocEntry(heading, toc_entries, counters) ==
    LET level_idx == heading.hashes - 2
        base      == BaseSlug(heading.text, Len(toc_entries))
        used      == {toc_entries[k].slug : k \in 1..Len(toc_entries)}
    IN  [level  |-> level_idx,
         text   |-> Strip(heading.text),
         number |-> SectionNumber(level_idx, counters),
         slug   |-> FreeSlug(base, base, 1, used)]

\* lines 297-329: the loop over headings_for_toc, from the k-th heading on
RECURSIVE TocFrom(_, _, _, _)
TocFrom(headings, k, toc_entries, section_counters) ==
    IF k > Len(headings) \/ Len(toc_entries) >= max_toc_entries
    THEN toc_entries
    ELSE Only({Only({TocFrom(headings, k + 1, entries, counters) :
                        entries \in {Append(toc_entries,
                                        TocEntry(headings[k], toc_entries,
                                                 counters))}}) :
                  counters \in {Count(headings[k].hashes - 2,
                                      section_counters)}})

\* toc_entries of a body
TocEntries(body) ==
    Only({TocFrom(headings, 1, <<>>, <<0, 0>>) :
             headings \in {HeadingsFrom(body, 0, TocHashes)}})

Hashes(n) == [k \in 1..n |-> "#"]

\* line 334: one line of the table of contents
TocLine(entry) ==
    (IF entry.level = 1 THEN <<" ", " ">> ELSE <<>>)
    \o <<"-", " ">> \o entry.number \o <<" ", "[">> \o entry.text
    \o <<"]", "(", "#">> \o entry.slug \o <<")">>

\* lines 331-336: "\n".join(toc_md_list)
toc_md_content(toc_entries) ==
    <<"#", "#", " ", "T", "a", "b", "l", "e", " ", "o", "f", " ",
      "C", "o", "n", "t", "e", "n", "t", "s", "\n">>
    \o Cat([k \in 1..Len(toc_entries) |-> <<"\n">> \o TocLine(toc_entries[k])])

\* the last entry of that text and level is taken, not the first
add_section_numbers_md_Last(t, match, toc_entries) ==
    LET h_text_original == Strip(match.text)
        level_idx == match.hashes - 2
        hits == {k \in 1..Len(toc_entries) :
                    /\ toc_entries[k].text = h_text_original
                    /\ toc_entries[k].level = level_idx}
    IN  IF hits # {}
        THEN Hashes(match.hashes) \o <<" ">> \o toc_entries[Max(hits)].number
             \o <<" ">> \o h_text_original \o <<"\n">>
        ELSE Slice(t, match.start, match.end)

\* lines 341-350: what a heading of the body is replaced by
add_section_numbers_md(t, match, toc_entries) ==
    LET h_text_original == Strip(match.text)
        level_idx == match.hashes - 2
        hits == {k \in 1..Len(toc_entries) :
                    /\ toc_entries[k].text = h_text_original
                    /\ toc_entries[k].level = level_idx}
    IN  IF hits # {}
        THEN Hashes(match.hashes) \o <<" ">> \o toc_entries[Min(hits)].number
             \o <<" ">> \o h_text_original \o <<"\n">>
        ELSE Slice(t, match.start, match.end)

\* line 352: heading_pattern_toc.sub(add_section_numbers_md, body)
RECURSIVE NumberHeadings(_, _, _)
NumberHeadings(t, pos, toc_entries) ==
    Only({IF ~m.ok THEN Slice(t, pos, Len(t))
          ELSE Slice(t, pos, m.start)
               \o add_section_numbers_md(t, m, toc_entries)
               \o NumberHeadings(t, m.end, toc_entries) :
             m \in {FirstHeading(t, pos, TocHashes)}})

----------------------------------------------------------------------------
(* 5. Context string, 4.6 assembly, 4.7 HTML *)

\* lines 259-260: context_summary given as a string
context_display_string(context) ==
    IF Strip(context) # <<>>
    THEN <<"#", "#", "#", " ", "I", "n", "p", "u", "t", " ", "C", "o", "n",
           "t", "e", "x", "t", ":", "\n">> \o context \o <<"\n">>
    ELSE <<>>

\* lines 357-358
question_part(question) ==
    IF Strip(question) # <<>>
    THEN <<"#", "#", " ", "U", "s", "e", "r", "'", "s", " ", "Q", "u", "e",
           "s", "t", "i", "o", "n", ":", "\n", ">", " ">>
         \o Strip(question) \o <<"\n", "\n">>
    ELSE <<>>

Rule == <<"\n", "\n", "-", "-", "-", "\n">>

\* the table of contents is put before the summary
Assemble_TocFirst(titled, split, toc, numbered, question, context) ==
    LET parts == <<"#", " ">> \o titled.doc_title \o <<"\n", "\n">>
                 \o question_part(question)
                 \o (IF context_display_string(context) # <<>>
                     THEN context_display_string(context) \o <<"\n">>
                     ELSE <<>>)
                 \o (IF toc # <<>>
                     THEN toc_md_content(toc) \o Rule ELSE <<>>)
                 \o (IF split.executive_summary_md # <<>>
                     THEN split.executive_summary_md \o Rule ELSE <<>>)
                 \o numbered
    IN  [doc_title            |-> titled.doc_title,
         executive_summary_md |-> split.executive_summary_md,
         body                 |-> split.body,
         toc_entries          |-> toc,
         numbered_markdown_body |-> numbered,
         markdown             |-> fix_encoding_issues(parts)]

\* lines 354-373: the parts of the document, put together and normalized
Assemble(titled, split, toc, numbered, question, context) ==
    LET parts == <<"#", " ">> \o titled.doc_title \o <<"\n", "\n">>
                 \o question_part(question)
                 \o (IF context_display_string(context) # <<>>
                     THEN context_display_string(context) \o <<"\n">>
                     ELSE <<>>)
                 \o (IF split.executive_summary_md # <<>>
                     THEN split.executive_summary_md \o Rule ELSE <<>>)
                 \o (IF toc # <<>>
                     THEN toc_md_content(toc) \o Rule ELSE <<>>)
                 \o numbered
    IN  [doc_title            |-> titled.doc_title,
         executive_summary_md |-> split.executive_summary_md,
         body                 |-> split.body,
         toc_entries          |-> toc,
         numbered_markdown_body |-> numbered,
         markdown             |-> fix_encoding_issues(parts)]

\* lines 262-373: the document made from processed_text
Structure(text, question, context) ==
    Only({Only({Only({Only({
        Assemble(titled, split, toc, numbered, question, context) :
            numbered \in {NumberHeadings(split.body, 0, toc)}}) :
            toc \in {TocEntries(split.body)}}) :
            split \in {SummarySplit(titled.body)}}) :
            titled \in {TitleSplit(text)}})

\* lines 376-393: the fixed text of the page around the title and the document
HtmlHead == "<!DOCTYPE html>\n<html lang=\"en\">\n<head>\n    <meta charset=\"UTF-8\">\n    <title>"
HtmlStyle == "</title>\n    <style>...</style>\n</head>\n<body>\n    <pre>"
HtmlFoot == "</pre>\n</body>\n</html>"

\* the document is escaped for HTML before it is embedded
html_content_Escaped(doc_title, markdown) ==
    <<HtmlHead>> \o doc_title \o <<HtmlStyle>>
    \o StrReplace(markdown, <<"\"">>, <<"&quot;">>) \o <<HtmlFoot>>

\* lines 376-393: the page
html_content(doc_title, markdown) ==
    <<HtmlHead>> \o doc_title \o <<HtmlStyle>> \o markdown \o <<HtmlFoot>>

----------------------------------------------------------------------------
(* 1. Parse quotes data, and the short-circuit return *)

\* the parse without its except clause: the error of json.loads propagates
ParseQuotes_Uncaught(qd) ==
    IF qd.kind = "str" /\ ~qd.json_ok
    THEN [outcome |-> "raise", error |-> ""]
    ELSE IF qd.value = <<>>
         THEN [outcome |-> "error", error |-> "No quotes data provided"]
         ELSE [outcome |-> "ok", error |-> ""]

\* the try block of lines 77-87: json.loads of a string that is no JSON
\* raises and is caught; an empty collection returns the error payload
ParseQuotes(qd) ==
    IF qd.kind = "str" /\ ~qd.json_ok
    THEN [outcome |-> "error", error |-> "Failed to parse quotes data"]
    ELSE IF qd.value = <<>>
         THEN [outcome |-> "error", error |-> "No quotes data provided"]
         ELSE [outcome |-> "ok", error |-> ""]

\* f"<html><body><pre>{report_text}</pre></body></html>"
ErrorHtml(text) ==
    <<"<html><body><pre>">> \o text \o <<"</pre></body></html>">>

\* the report left as passed in
NormalizedReport_Raw(report) == report

\* line 68: fix_encoding_issues(str(report_text)) if report_text else ""
NormalizedReport(report) ==
    IF report # <<>> THEN fix_encoding_issues(report) ELSE <<>>

\* line 69: fix_encoding_issues(str(user_question)) if user_question else ""
NormalizedQuestion == NormalizedReport(user_question)

\* lines 71-72: context_summary given as a string
NormalizedContext == fix_encoding_issues(context_summary)

----------------------------------------------------------------------------
(* line 212: all_matches = [] *)

\* the list is not made anew: the name keeps what it held
NewList_Kept(held) == held

\* a new empty list, whatever the name held before
NewList(held) == <<>>

\* random.choice(seq), as the element at the index the generator gives
Choice(seq, k) == seq[k]

----------------------------------------------------------------------------
(* Inputs *)

tA == <<"a", "b", "c", "d", "e", "f", "g", "h", "i", "j", "k", "l", "m", "n", "o", "p", "r", "s", "t", "u">>
tB == <<"A", "b", "c", "d", "e", "f", "g", "h", "i", "j", "k", "l", "m", "n", "o", "p", "r", "s", "t", "u">>
tC == <<"a", "B", "c", "d", "e", "f", "g", "h", "i", "j", "k", "l", "m", "n", "o", "p", "r", "s", "t", "u">>

\* He said "abcdefghijklmnoprstu" to me.
Sentence == <<"H", "e", " ", "s", "a", "i", "d", " ">> \o <<"\"">> \o tA \o <<"\"">>
            \o <<" ", "t", "o", " ", "m", "e", ".">>

\* the pieces reports are assembled from
\*   "abcdefghijklmnoprstu"
\*   <ldq>Abcdefghijklmnoprstu<rdq> 'aBcdefghijklmnoprstu'<A_circ>
\*   He said "abcdefghijklmnoprstu" to me.
Segments == <<
    <<"\"">> \o tA \o <<"\"">>,
    <<"ldq">> \o tB \o <<"rdq", " ", "'">> \o tC \o <<"'", "A_circ">>,
    Sentence >>

Join(ix) == Cat([k \in 1..Len(ix) |->
                    IF k = 1 THEN Segments[ix[k]]
                    ELSE <<" ">> \o Segments[ix[k]]])

Reports == {Join(ix) : ix \in UNION {[1..n -> 1..Len(Segments)] : n \in 0..MaxSegs}}

\* the records source collections are drawn from; ids are unique
SourceLib == <<
    [quote_id |-> "q1", text |-> tA, subreddit |-> "s1", url |-> <<"u">>],
    [quote_id |-> "q2", text |-> tA, subreddit |-> "s2"],
    [quote_id |-> "q3", text |-> Sentence, url |-> <<"w">>] >>

SourceLists ==
    {[k \in 1..Len(ix) |-> SourceLib[ix[k]]] :
        ix \in {f \in UNION {[1..n -> 1..Len(SourceLib)] : n \in 0..MaxSources} :
                   \A i, j \in DOMAIN f : i # j => f[i] # f[j]}}

QuotesInputs ==
    {[kind |-> "str", json_ok |-> FALSE, value |-> <<>>]}
    \cup {[kind |-> "list", json_ok |-> TRUE, value |-> l] : l \in SourceLists}
    \cup {[kind |-> "str", json_ok |-> TRUE, value |-> l] : l \in SourceLists}

----------------------------------------------------------------------------
(* Inputs with scores near the second threshold *)

\* against abcdefghijklmnoprstu: 40/41, 38/40, 40/42 and 40/43
tX == tA \o <<"x">>
tP == SubSeq(tA, 1, 19) \o <<"x">>
tY == tA \o <<"x", "y">>
tZ == tA \o <<"x", "y", "z">>

TieLib == <<
    [quote_id |-> "x", text |-> tX, url |-> <<"x">>],
    [quote_id |-> "p", text |-> tP, url |-> <<"p">>],
    [quote_id |-> "y", text |-> tY, url |-> <<"y">>],
    [quote_id |-> "z", text |-> tZ, url |-> <<"z">>] >>

TieLists ==
    {[k \in 1..Len(ix) |-> TieLib[ix[k]]] :
        ix \in {f \in UNION {[1..n -> 1..Len(TieLib)] : n \in 1..MaxSources} :
                   \A i, j \in DOMAIN f : i # j => f[i] # f[j]}}

\*   "abcdefghijklmnoprstu"
\*   "abcdefghijklmnoprstu" 'aBcdefghijklmnoprstu'
TieReports == {Segments[1],
               Segments[1] \o <<" ", "'">> \o tC \o <<"'">>}

----------------------------------------------------------------------------
(* Inputs with records that carry no id *)

\* two records without quote_id, and one with
NoIdLib == <<
    [text |-> tA, url |-> <<"a">>],
    [text |-> tA, url |-> <<"b">>],
    SourceLib[1] >>

NoIdLists ==
    {[k \in 1..Len(ix) |-> NoIdLib[ix[k]]] :
        ix \in {f \in UNION {[1..n -> 1..Len(NoIdLib)] : n \in 1..MaxSources} :
                   \A i, j \in DOMAIN f : i # j => f[i] # f[j]}}

----------------------------------------------------------------------------
(* Inputs with headings *)

\* number of lines of a document body
MaxLines == 3

\* the lines document bodies are assembled from
\*   ## Intro
\*   ## Intro 1
\*   ### Intro
\*   ## !!
\*   "abcdefghijklmnoprstu"
DocLines == <<
    <<"#", "#", " ", "I", "n", "t", "r", "o", "\n">>,
    <<"#", "#", " ", "I", "n", "t", "r", "o", " ", "1", "\n">>,
    <<"#", "#", "#", " ", "I", "n", "t", "r", "o", "\n">>,
    <<"#", "#", " ", "!", "!", "\n">>,
    Segments[1] \o <<"\n">> >>

DocBodies ==
    {Cat([k \in 1..Len(ix) |-> DocLines[ix[k]]]) :
        ix \in UNION {[1..n -> 1..Len(DocLines)] : n \in 0..MaxLines}}

\* a call with the body alone, and one with a title line and a summary
\* section before the body, a question and a context
\*   # T                    q?          c
\*   ## Key Takeaways
\*   sum
Frames == {
    [top |-> <<>>, question |-> <<>>, context |-> <<>>],
    [top |-> <<"#", " ", "T", "\n">>
             \o <<"#", "#", " ", "K", "e", "y", " ", "T", "a", "k", "e", "a",
                  "w", "a", "y", "s", "\n", "s", "u", "m", "\n">>,
     question |-> <<" ", "q", "?", " ">>,
     context |-> <<"c">>]}

----------------------------------------------------------------------------
(* Inputs with about twenty headings *)

\* how many headings fewer or more than max_toc_entries a long body has
MaxBeyond == 2

\* the two heading lines long bodies are made of
\*   ## A
\*   ### B
HeadA == <<"#", "#", " ", "A", "\n">>
HeadB == <<"#", "#", "#", " ", "B", "\n">>

\* n headings: all of level 2, or every second of level 3, beginning with
\* the first or with the second
LongBodies ==
    {Cat([k \in 1..n |-> IF k % 2 = r THEN HeadB ELSE HeadA]) :
        n \in (max_toc_entries - MaxBeyond)..(max_toc_entries + MaxBeyond),
        r \in {0, 1, 2}}

----------------------------------------------------------------------------
(* Inputs made of the parts of a document *)

\*   "abcdefghijklmnoprstu"
QuoteLine == Segments[1] \o <<"\n">>
\*   # T
TitleLine == <<"#", " ", "T", "\n">>
\*   ## Key Takeaways
\*   sum
SummaryLines == <<"#", "#", " ", "K", "e", "y", " ", "T", "a", "k", "e", "a",
                  "w", "a", "y", "s", "\n", "s", "u", "m", "\n">>

\* a report is: lines, a title line, lines, a summary section, lines, each
\* of them there or not
PartReports ==
    {pre \o title \o mid \o summary \o post :
        pre \in {<<>>, QuoteLine},
        title \in {<<>>, TitleLine},
        mid \in {<<>>, DocLines[1], QuoteLine},
        summary \in {<<>>, SummaryLines},
        post \in {<<>>, DocLines[1], DocLines[3] \o DocLines[1]}}

\* the question and the context of a call: empty, blank or with text
Asked == {
    [question |-> <<>>, context |-> <<>>],
    [question |-> <<" ">>, context |-> <<"c">>],
    [question |-> <<" ", "q", "?", " ">>, context |-> <<" ">>],
    [question |-> <<" ", "q", "?", " ">>, context |-> <<"c">>]}

----------------------------------------------------------------------------
(* Inputs at the length limits of the extractor *)

\*   I need<23 blanks>it.       the shortest run the sentence pattern takes
ShortSentence == <<"I", " ", "n", "e", "e", "d">>
                 \o [k \in 1..(SentenceMinLen - 7) |-> " "]
                 \o <<"i", "t", ".">>
\*   I aaa...a.                 the longest run the sentence pattern takes
LongSentence == <<"I", " ">> \o [k \in 1..(SentenceMaxLen - 1) |-> "a"]
                \o <<".">>

\* the pieces of these reports
\*   "abcdefghijklmnoprstu"     20 characters between the quotes
\*   "abcdefghijklmnoprst"      19 characters
\*   "abcdefghi  jklmnoprs"     20 characters, 19 when cleaned
\*   He said "abcdefghijklmnoprstu" to me.
LimitPieces == <<
    Segments[1],
    <<"\"">> \o SubSeq(tA, 1, 19) \o <<"\"">>,
    <<"\"">> \o SubSeq(tA, 1, 9) \o <<" ", " ">> \o SubSeq(tA, 10, 18)
        \o <<"\"">>,
    Sentence,
    ShortSentence,
    LongSentence >>

\* one piece, or a piece, a blank and one of the shorter pieces
LimitReports ==
    {LimitPieces[i] : i \in 1..Len(LimitPieces)}
    \cup {LimitPieces[i] \o <<" ">> \o LimitPieces[j] :
              i \in 1..Len(LimitPieces), j \in 2..(Len(LimitPieces) - 1)}

\* the sources of these calls
LimitSources == <<
    SourceLib[1],
    [quote_id |-> "q4", url |-> <<"v">>,
     text |-> <<"I", " ", "n", "e", "e", "d", " ", "i", "t", ".">>] >>

----------------------------------------------------------------------------
(* Inputs with corrupted characters *)

\* the k-th corrupted pattern, then  and "abcdefghijklmnoprstu"
Corrupted(k) == replacements[k][1]
                \o <<" ", "a", "n", "d", " ">> \o Segments[1]

\* the same with a stray U+00C2 after the first character of the pattern
Interleaved(k) == <<replacements[k][1][1], "A_circ">>
                  \o Tail(replacements[k][1])
                  \o <<" ", "a", "n", "d", " ">> \o Segments[1]

----------------------------------------------------------------------------
(* Inputs that differ in the order of four letters *)

\* four orders of the letters d, e, i, t
Cores == {<<"t", "i", "d", "e">>, <<"d", "i", "e", "t">>,
          <<"e", "d", "i", "t">>, <<"t", "i", "e", "d">>}

\* sixteen letters, none of them d, e, i or t
CommonTail == <<"a", "b", "c", "f", "g", "h", "j", "k",
                "l", "m", "n", "o", "p", "r", "s", "u">>

----------------------------------------------------------------------------
(* The invocation *)

\* the invocation has not begun: no local holds anything yet
Idle ==
    /\ run = "first"
    /\ choices = <<>>
    /\ prev = <<>>
    /\ pc = "start"
    /\ report_text = <<>>
    /\ quotes_list = <<>>
    /\ report_quotes = <<>>
    /\ bucket_keys = <<>>
    /\ buckets = <<>>
    /\ all_matches = <<>>
    /\ fb = NoCall
    /\ processed_text = <<>>
    /\ linked_count = 0
    /\ rw_i = 0
    /\ out_md = <<>>
    /\ out_stats = <<>>
    /\ out_html = <<>>

Init ==
    /\ report_in \in Reports
    /\ quotes_data \in QuotesInputs
    /\ user_question = <<>>
    /\ context_summary = <<>>
    /\ Idle

\* a report with one or two quotes, and sources that score near 0.95
InitTie ==
    /\ report_in \in TieReports
    /\ quotes_data \in {[kind |-> "list", json_ok |-> TRUE, value |-> l] :
                            l \in TieLists}
    /\ user_question = <<>>
    /\ context_summary = <<>>
    /\ Idle

\* a document of headings and at most a few quotes, and one source record
InitDoc ==
    /\ \E f \in Frames : \E body \in DocBodies :
           /\ report_in = f.top \o body
           /\ user_question = f.question
           /\ context_summary = f.context
    /\ quotes_data = [kind |-> "list", json_ok |-> TRUE,
                      value |-> <<SourceLib[1]>>]
    /\ Idle

\* a report made of parts, a question and a context, and one source record
InitParts ==
    /\ report_in \in PartReports
    /\ \E a \in Asked :
           /\ user_question = a.question
           /\ context_summary = a.context
    /\ quotes_data = [kind |-> "list", json_ok |-> TRUE,
                      value |-> <<SourceLib[1]>>]
    /\ Idle

\* a report of quotes and sentences at the length limits, and two sources
InitLimits ==
    /\ report_in \in LimitReports
    /\ quotes_data = [kind |-> "list", json_ok |-> TRUE,
                      value |-> LimitSources]
    /\ user_question = <<>>
    /\ context_summary = <<>>
    /\ Idle

\* a report of quotes, and sources of which some carry no id
InitNoId ==
    /\ report_in \in Reports
    /\ quotes_data \in {[kind |-> "list", json_ok |-> TRUE, value |-> l] :
                            l \in NoIdLists}
    /\ user_question = <<>>
    /\ context_summary = <<>>
    /\ Idle

\* a long body, with or without a quote of the one source record after it
InitCap ==
    /\ \E body \in LongBodies : \E tail \in {<<>>, Segments[1] \o <<"\n">>} :
           report_in = body \o tail
    /\ quotes_data = [kind |-> "list", json_ok |-> TRUE,
                      value |-> <<SourceLib[1]>>]
    /\ user_question = <<>>
    /\ context_summary = <<>>
    /\ Idle

\* a report that begins with one corrupted pattern of the table, as it is
\* or with a stray U+00C2 in it, followed by a quote of the one source record
InitNorm ==
    /\ report_in \in {Corrupted(k) : k \in 1..Len(replacements)}
                     \cup {Interleaved(k) : k \in 1..Len(replacements)}
    /\ quotes_data = [kind |-> "list", json_ok |-> TRUE,
                      value |-> <<SourceLib[1]>>]
    /\ user_question = <<>>
    /\ context_summary = <<>>
    /\ Idle

\* a report of one quote and one source record; the two texts are the same
\* sixteen letters after two orders of d, e, i, t
InitSim ==
    /\ \E a, b \in Cores :
           /\ report_in = <<"\"">> \o a \o CommonTail \o <<"\"">>
           /\ quotes_data = [kind |-> "list", json_ok |-> TRUE,
                             value |-> <<[quote_id |-> "q1",
                                          text |-> b \o CommonTail,
                                          url |-> <<"u">>]>>]
    /\ user_question = <<>>
    /\ context_summary = <<>>
    /\ Idle

\* lines 67-87: normalize the report, parse the quotes, short-circuit
Parse ==
    /\ pc = "start"
    /\ report_text' = NormalizedReport(report_in)
    /\ LET r == ParseQuotes(quotes_data)
       IN  IF r.outcome = "ok"
           THEN /\ quotes_list' = quotes_data.value
                /\ pc' = "extract"
                /\ UNCHANGED <<out_md, out_stats, out_html>>
           ELSE IF r.outcome = "error"
           THEN /\ out_md' = report_text'
                /\ out_stats' = [error |-> r.error]
                /\ out_html' = ErrorHtml(report_text')
                /\ pc' = "done"
                /\ UNCHANGED quotes_list
           ELSE /\ pc' = "raised"
                /\ UNCHANGED <<quotes_list, out_md, out_stats, out_html>>
    /\ UNCHANGED <<report_in, quotes_data, user_question, context_summary,
                   run, choices, prev, report_quotes, bucket_keys, buckets,
                   all_matches, fb, processed_text, linked_count, rw_i>>

\* lines 200-212: extract the report quotes, index the records by subreddit
ExtractAndIndex ==
    /\ pc = "extract"
    /\ report_quotes' = extract_quotes_from_report(report_text)
    /\ bucket_keys' = SubredditKeys(quotes_list, {})
    /\ buckets' = [k \in 1..Len(bucket_keys') |->
                      InSubreddit(quotes_list, bucket_keys'[k])]
    /\ all_matches' = NewList(all_matches)
    /\ fb' = NoCall
    /\ pc' = "tier1"
    /\ UNCHANGED <<report_in, quotes_data, user_question, context_summary,
                   run, choices, prev, report_text, quotes_list,
                   processed_text, linked_count, rw_i, out_md, out_stats,
                   out_html>>

\* line 215-216: the first pass calls find_best_matches for the next subreddit
Tier1Call ==
    /\ pc = "tier1"
    /\ LET b == (IF fb.tier = 1 THEN fb.b ELSE 0) + 1
       IN  /\ b <= Len(bucket_keys)
           /\ fb' = StartCall(1, b, report_quotes, buckets[b], Tier1Threshold)
    /\ pc' = "fbm"
    /\ UNCHANGED <<report_in, quotes_data, user_question, context_summary,
                   run, choices, prev, report_text, quotes_list,
                   report_quotes, bucket_keys, buckets, all_matches,
                   processed_text, linked_count, rw_i, out_md, out_stats,
                   out_html>>

\* lines 219-225: the second pass, over the report quotes no match names yet
Tier2Call ==
    /\ pc = "tier1"
    /\ (IF fb.tier = 1 THEN fb.b ELSE 0) + 1 > Len(bucket_keys)
    /\ LET remaining_report_quotes == Remaining(report_quotes, all_matches)
       IN  IF remaining_report_quotes # <<>>
           THEN /\ fb' = StartCall(2, 0, remaining_report_quotes, quotes_list,
                                   Tier2Threshold)
                /\ pc' = "fbm"
           ELSE /\ pc' = "sort"
                /\ UNCHANGED fb
    /\ UNCHANGED <<report_in, quotes_data, user_question, context_summary,
                   run, choices, prev, report_text, quotes_list,
                   report_quotes, bucket_keys, buckets, all_matches,
                   processed_text, linked_count, rw_i, out_md, out_stats,
                   out_html>>

\* lines 158-195: one turn of the loop over report_quotes
FBMStep ==
    /\ pc = "fbm"
    /\ fb.i <= Len(fb.cands)
    /\ LET report_quote == fb.cands[fb.i]
           candidates   == SortBySimilarity(
                               Candidates(report_quote, fb.pool, fb.used, fb.th))
       IN  IF candidates # <<>>
           THEN LET top_candidates == TopCandidates(candidates)
                IN  IF Len(top_candidates) > 1
                    THEN \E k \in 1..Len(top_candidates) :
                           /\ fb' = Matched(fb, report_quote,
                                            Choice(top_candidates, k))
                           /\ choices' = Append(choices, k)
                    ELSE /\ fb' = Matched(fb, report_quote, candidates[1])
                         /\ choices' = choices
           ELSE /\ fb' = [fb EXCEPT !.i = fb.i + 1]
                /\ choices' = choices
    /\ UNCHANGED <<report_in, quotes_data, user_question, context_summary,
                   run, prev, pc, report_text, quotes_list,
                   report_quotes, bucket_keys, buckets, all_matches,
                   processed_text, linked_count, rw_i, out_md, out_stats,
                   out_html>>

\* line 197, and all_matches.extend(...) of lines 217 and 225
FBMReturn ==
    /\ pc = "fbm"
    /\ fb.i > Len(fb.cands)
    /\ all_matches' = all_matches \o fb.matches
    /\ pc' = IF fb.tier = 1 THEN "tier1" ELSE "sort"
    /\ UNCHANGED <<report_in, quotes_data, user_question, context_summary,
                   run, choices, prev, report_text, quotes_list,
                   report_quotes, bucket_keys, buckets, fb, processed_text,
                   linked_count, rw_i, out_md, out_stats, out_html>>

\* lines 228-232: the matches are sorted by start_pos, descending
SortAllMatches ==
    /\ pc = "sort"
    /\ all_matches' = SortMatches(all_matches)
    /\ processed_text' = report_text
    /\ linked_count' = 0
    /\ rw_i' = 1
    /\ pc' = "rewrite"
    /\ UNCHANGED <<report_in, quotes_data, user_question, context_summary,
                   run, choices, prev, report_text, quotes_list,
                   report_quotes, bucket_keys, buckets, fb, out_md, out_stats,
                   out_html>>

\* lines 234-249: one turn of the replacement loop
RewriteStep ==
    /\ pc = "rewrite"
    /\ rw_i <= Len(all_matches)
    /\ processed_text' = ReplaceSpan(processed_text, all_matches[rw_i])
    /\ linked_count' = linked_count + 1
    /\ rw_i' = rw_i + 1
    /\ UNCHANGED <<report_in, quotes_data, user_question, context_summary,
                   run, choices, prev, pc, report_text, quotes_list,
                   report_quotes, bucket_keys, buckets, all_matches, fb, out_md,
                   out_stats, out_html>>

\* lines 251-419: the document is structured, the page and the statistics
\* are made, and the three results are returned
ReturnStats ==
    /\ pc = "rewrite"
    /\ rw_i > Len(all_matches)
    /\ \E doc \in {Structure(processed_text, NormalizedQuestion,
                              NormalizedContext)} :
           /\ out_md' = doc.markdown
           /\ out_html' = html_content(doc.doc_title, doc.markdown)
    /\ out_stats' = stats_dict(report_quotes, quotes_list, linked_count,
                               bucket_keys, all_matches)
    /\ pc' = "done"
    /\ UNCHANGED <<report_in, quotes_data, user_question, context_summary,
                   run, choices, prev, report_text, quotes_list,
                   report_quotes, bucket_keys, buckets, all_matches, fb,
                   processed_text, linked_count, rw_i>>

\* the caller invokes function() again with the same arguments; what the
\* first invocation returned is kept for comparison. No local of the new
\* invocation is bound yet: each still shows what the old one left.
Reinvoke ==
    /\ pc = "done"
    /\ run = "first"
    /\ run' = "second"
    /\ prev' = [markdown |-> out_md, stats |-> out_stats, html |-> out_html,
                choices |-> choices]
    /\ choices' = <<>>
    /\ pc' = "start"
    /\ UNCHANGED <<report_in, quotes_data, user_question, context_summary,
                   report_text, quotes_list, report_quotes, bucket_keys,
                   buckets, all_matches, fb, processed_text, linked_count,
                   rw_i, out_md, out_stats, out_html>>

Next ==
    \/ Parse
    \/ ExtractAndIndex
    \/ Tier1Call
    \/ Tier2Call
    \/ FBMStep
    \/ FBMReturn
    \/ SortAllMatches
    \/ RewriteStep
    \/ ReturnStats
    \/ Reinvoke

Spec == Init /\ [][Next]_vars

SpecTie == InitTie /\ [][Next]_vars

SpecDoc == InitDoc /\ [][Next]_vars

SpecNorm == InitNorm /\ [][Next]_vars

SpecSim == InitSim /\ [][Next]_vars

SpecCap == InitCap /\ [][Next]_vars

SpecParts == InitParts /\ [][Next]_vars

SpecLimits == InitLimits /\ [][Next]_vars

SpecNoId == InitNoId /\ [][Next]_vars

----------------------------------------------------------------------------
(* Properties *)

\* the invocation returned on the normal path
NormalDone == pc = "done" /\ "match_rate" \in DOMAIN out_stats

\* the replacement loop has handled every match
RewriteFinished ==
    \/ pc = "rewrite" /\ rw_i > Len(all_matches)
    \/ NormalDone

\* the final match list is complete (handed to the Link Rewriter)
MatchListFinal == pc = "rewrite" \/ NormalDone

Rev(sq) == [k \in 1..Len(sq) |-> sq[Len(sq) + 1 - k]]

\* the text with every matched span replaced by its link and the rest kept:
\* ms in ascending start order, cursor the offset reached so far
RECURSIVE LinkedFrom(_, _, _)
LinkedFrom(text, ms, cursor) ==
    IF ms = <<>> THEN Slice(text, cursor, Len(text))
    ELSE Slice(text, cursor, Head(ms).report_quote.start_pos)
         \o linked_quote(Head(ms))
         \o LinkedFrom(text, Tail(ms), Head(ms).report_quote.end_pos)

SpansDisjoint(m1, m2) ==
    \/ m1.report_quote.end_pos <= m2.report_quote.start_pos
    \/ m2.report_quote.end_pos <= m1.report_quote.start_pos

\* C1: once the Link Rewriter has processed all matches, the text is the
\* normalized report with each matched span replaced by [raw_span](url) and
\* every character outside the matched spans kept, in order.
C1_FrameKept ==
    RewriteFinished =>
        processed_text = LinkedFrom(report_text, Rev(all_matches), 0)

\* C2: the spans of any two distinct matches handed to the Link Rewriter are
\* disjoint.
C2_SpansDisjoint ==
    MatchListFinal =>
        \A i, j \in 1..Len(all_matches) :
            i # j => SpansDisjoint(all_matches[i], all_matches[j])

\* C3: when a match is about to be rewritten, the current text between its
\* start and end offsets is exactly the candidate's raw span.
C3_SpanIntactAtRewrite ==
    (pc = "rewrite" /\ rw_i <= Len(all_matches)) =>
        Slice(processed_text, all_matches[rw_i].report_quote.start_pos,
              all_matches[rw_i].report_quote.end_pos)
            = all_matches[rw_i].report_quote.original_match

\* C4: in the final match list every Candidate Quote appears in at most one
\* match.
C4_CandidateMatchedOnce ==
    MatchListFinal =>
        \A i, j \in 1..Len(all_matches) :
            i # j => all_matches[i].report_quote # all_matches[j].report_quote

\* C5: in the final match list every Source Quote is the source of at most
\* one match.
C5_SourceMatchedOnce ==
    MatchListFinal =>
        \A i, j \in 1..Len(all_matches) :
            i # j => all_matches[i].db_quote # all_matches[j].db_quote

UniqueIds(pool) ==
    \A i, j \in 1..Len(pool) :
        i # j => /\ "quote_id" \in DOMAIN pool[i]
                 /\ "quote_id" \in DOMAIN pool[j]
                 /\ pool[i].quote_id # pool[j].quote_id

\* C6: within one call of find_best_matches on a pool with unique ids, no
\* source-quote id appears in more than one match of the call.
C6_IdOncePerCall ==
    (pc = "fbm" /\ UniqueIds(fb.pool)) =>
        \A i, j \in 1..Len(fb.matches) :
            i # j => fb.matches[i].db_quote.quote_id
                         # fb.matches[j].db_quote.quote_id

\* a call that returns two matches, the second made while an id was in use
C6_Witness ==
    /\ pc = "fbm"
    /\ fb.i > Len(fb.cands)
    /\ UniqueIds(fb.pool)
    /\ Len(fb.pool) >= 2
    /\ Len(fb.matches) >= 2

\* C7: match_rate is linked_count / candidate_count * 100 and lies in
\* [0, 100] (the link count never exceeds the candidate count); it is "0%"
\* when there are no candidates.
C7_MatchRateBounded ==
    NormalDone =>
        /\ out_stats.successful_matches <= out_stats.total_quotes_in_report
        /\ IF out_stats.total_quotes_in_report = 0
           THEN out_stats.match_rate = <<"0", "%">>
           ELSE /\ RateTenths(out_stats.successful_matches,
                              out_stats.total_quotes_in_report) \in 0..1000
                /\ out_stats.match_rate =
                       match_rate(out_stats.successful_matches, report_quotes)

Linked(q) == \E k \in 1..Len(all_matches) : all_matches[k].report_quote = q

\* the candidate's cleaned text is character-identical to the record's text,
\* which cleaning leaves as it is (so the two compared strings are the same)
Identical(q, d) ==
    /\ "text" \in DOMAIN d
    /\ q.text = d.text
    /\ clean_quote_for_matching(d.text) = d.text

\* C8 as stated: a candidate whose cleaned text is character-identical to a
\* source quote's text is always linked.
C8_IdenticalAlwaysLinked ==
    NormalDone =>
        \A k \in 1..Len(report_quotes) : \A n \in 1..Len(quotes_list) :
            Identical(report_quotes[k], quotes_list[n])
                => Linked(report_quotes[k])

\* an earlier candidate can take the record in the first pass
TakenEarlier(k, d) ==
    \E e \in 1..(k - 1) :
        RatioGE(similarity_ratio(report_quotes[e].text,
                                 clean_quote_for_matching(d.text)),
                Tier1Threshold)

\* C8 amended: with unique source ids, a candidate whose cleaned text is
\* character-identical to a source quote's text is linked whenever no
\* candidate earlier in the document reaches 0.98 against that source quote.
C8_IdenticalLinkedUnlessTaken ==
    (NormalDone /\ UniqueIds(quotes_list)) =>
        \A k \in 1..Len(report_quotes) : \A n \in 1..Len(quotes_list) :
            (Identical(report_quotes[k], quotes_list[n])
             /\ ~TakenEarlier(k, quotes_list[n]))
                => Linked(report_quotes[k])

\* an identical candidate that is not the first candidate, and is linked
C8_Witness ==
    /\ NormalDone
    /\ UniqueIds(quotes_list)
    /\ \E k \in 2..Len(report_quotes) : \E n \in 1..Len(quotes_list) :
           /\ Identical(report_quotes[k], quotes_list[n])
           /\ ~TakenEarlier(k, quotes_list[n])
           /\ Linked(report_quotes[k])

\* the source-quote input cannot be parsed, or is an empty collection
Malformed(qd) == (qd.kind = "str" /\ ~qd.json_ok) \/ qd.value = <<>>

\* C9 as stated: on the short-circuit path the markdown output equals the
\* report text that was passed in.
C9_OutputIsInput ==
    (pc = "done" /\ Malformed(quotes_data)) => out_md = report_in

\* C9 amended: on the short-circuit path the markdown output is the report
\* text after the Text Normalizer's substitutions, and nothing else is done
\* to it.
C9_OutputIsNormalizedInput ==
    (pc = "done" /\ Malformed(quotes_data)) =>
        out_md = fix_encoding_issues(report_in)

\* a short-circuit return of a report the normalizer changed
C9_Witness ==
    /\ pc = "done"
    /\ Malformed(quotes_data)
    /\ out_md # <<>>
    /\ out_md # report_in

\* C10: a malformed source-quote input never raises: the invocation returns
\* an error stats payload and the report wrapped in <pre>, and no
\* extraction, matching, rewriting or structuring stage runs.
C10_MalformedShortCircuits ==
    Malformed(quotes_data) =>
        /\ pc \in {"start", "done"}
        /\ pc = "done" =>
               /\ DOMAIN out_stats = {"error"}
               /\ out_html = <<"<html><body><pre>">> \o out_md
                                 \o <<"</pre></body></html>">>
               /\ report_quotes = <<>>
               /\ all_matches = <<>>
               /\ processed_text = <<>>
               /\ linked_count = 0

\* the string "not json" has been handled and the invocation has returned
C10_Witness ==
    /\ pc = "done"
    /\ quotes_data.kind = "str"
    /\ ~quotes_data.json_ok
    /\ out_stats.error = "Failed to parse quotes data"

\* the score of the pool's n-th record against the report quote
Score(report_quote, pool, n) ==
    similarity_ratio(report_quote.text,
                     clean_quote_for_matching(Get(pool[n], "text", <<>>)))

\* a step that adds a match to the running call adds one whose source is an
\* unused record of the pool, scores at least the threshold, and scores at
\* least every unused record's score minus 0.02
ChoiceWithinMargin ==
    (pc = "fbm" /\ Len(fb'.matches) > Len(fb.matches)) =>
        /\ \E n \in 1..Len(fb.pool) :
               /\ fb.pool[n] = fb'.matches[Len(fb'.matches)].db_quote
               /\ fb.pool[n].quote_id \notin fb.used
               /\ fb'.matches[Len(fb'.matches)].similarity
                      = Score(fb.cands[fb.i], fb.pool, n)
        /\ fb'.matches[Len(fb'.matches)].report_quote = fb.cands[fb.i]
        /\ RatioGE(fb'.matches[Len(fb'.matches)].similarity, fb.th)
        /\ \A n \in 1..Len(fb.pool) :
               fb.pool[n].quote_id \notin fb.used
                   => RatioNear(fb'.matches[Len(fb'.matches)].similarity,
                                Score(fb.cands[fb.i], fb.pool, n))

\* C11: whenever the matching procedure chooses a source for a candidate,
\* the chosen source scores at least the threshold of the call and at least
\* the best score among the unused sources of the pool minus 0.02.
C11_ChosenWithinMargin == [][ChoiceWithinMargin]_vars

\* a first match of a call whose pool holds a source below the threshold but
\* within 0.02 of the chosen one
C11_Witness ==
    /\ pc = "fbm"
    /\ Len(fb.matches) = 1
    /\ \E n \in 1..Len(fb.pool) :
           /\ ~RatioGE(Score(fb.matches[1].report_quote, fb.pool, n), fb.th)
           /\ RatioNear(Score(fb.matches[1].report_quote, fb.pool, n),
                        fb.matches[1].similarity)

\* the record is held by exactly one bucket
InOneBucket(d) ==
    Cardinality({b \in 1..Len(buckets) :
                    \E n \in 1..Len(buckets[b]) : buckets[b][n] = d}) = 1

\* C12: every match of the final list is a first-pass match (source of one
\* bucket, similarity >= 0.98) or a second-pass match (similarity >= 0.95,
\* source of the full pool) whose candidate's cleaned text is in no
\* first-pass match; no candidate has a match of each pass.
C12_TwoTiers ==
    MatchListFinal =>
        \A i \in 1..Len(all_matches) :
            LET m == all_matches[i]
            IN  \/ /\ m.tier = 1
                   /\ InOneBucket(m.db_quote)
                   /\ RatioGE(m.similarity, Tier1Threshold)
                \/ /\ m.tier = 2
                   /\ \E n \in 1..Len(quotes_list) : quotes_list[n] = m.db_quote
                   /\ RatioGE(m.similarity, Tier2Threshold)
                   /\ \A j \in 1..Len(all_matches) :
                          all_matches[j].tier = 1 =>
                              all_matches[j].report_quote.text
                                  # m.report_quote.text

\* a final list with a match of each pass
C12_Witness ==
    /\ MatchListFinal
    /\ \E i, j \in 1..Len(all_matches) :
           all_matches[i].tier = 1 /\ all_matches[j].tier = 2

\* the document made from the text the Link Rewriter left
Doc == Structure(processed_text, NormalizedQuestion, NormalizedContext)

\* C13: all TOC slugs generated for one document are pairwise distinct.
C13_SlugsDistinct ==
    NormalDone =>
        \A toc \in {Doc.toc_entries} :
            \A i, j \in 1..Len(toc) : i # j => toc[i].slug # toc[j].slug

\* a document whose headings collide: two with the same base slug, and one
\* whose slug is the section-<index> fallback
C13_Witness ==
    /\ NormalDone
    /\ \E toc \in {Doc.toc_entries} :
           \E i, j, k \in 1..Len(toc) :
               /\ i < j
               /\ BaseSlug(toc[i].text, i - 1) = BaseSlug(toc[j].text, j - 1)
               /\ BaseSlug(toc[k].text, k - 1)
                      = <<"s", "e", "c", "t", "i", "o", "n", "-">>
                        \o IntToStr(k - 1)

\* <base>-k
Suffixed(base, k) == base \o <<"-">> \o IntToStr(k)

Intro == <<"I", "n", "t", "r", "o">>

\* C14: a heading whose base slug is already used gets <base>-k for the
\* smallest k >= 1 with <base>-k unused, and its base slug otherwise; two
\* level-2 headings "Intro" get intro and intro-1.
C14_SmallestFreeSuffix ==
    NormalDone =>
        \A toc \in {Doc.toc_entries} :
            /\ \A j \in 1..Len(toc) :
                   LET base == BaseSlug(toc[j].text, j - 1)
                       used == {toc[i].slug : i \in 1..(j - 1)}
                   IN  IF base \in used
                       THEN \E k \in 1..j :
                              /\ toc[j].slug = Suffixed(base, k)
                              /\ Suffixed(base, k) \notin used
                              /\ \A n \in 1..(k - 1) : Suffixed(base, n) \in used
                       ELSE toc[j].slug = base
            /\ (/\ Len(toc) = 2
                /\ \A j \in 1..2 : toc[j].text = Intro /\ toc[j].level = 0)
                   => /\ toc[1].slug = Lower(Intro)
                      /\ toc[2].slug = Suffixed(Lower(Intro), 1)

\* a heading whose base slug and whose <base>-1 are both used already
C14_Witness ==
    /\ NormalDone
    /\ \E toc \in {Doc.toc_entries} :
           \E j \in 1..Len(toc) :
               LET base == BaseSlug(toc[j].text, j - 1)
                   used == {toc[i].slug : i \in 1..(j - 1)}
               IN  /\ base \in used
                   /\ Suffixed(base, 1) \in used
                   /\ toc[j].slug = Suffixed(base, 2)

IsSuffix(x, y) ==
    Len(x) <= Len(y) /\ SubSeq(y, Len(y) - Len(x) + 1, Len(y)) = x

\* Scenario A: the normalized report holds no quotation mark and no heuristic
\* sentence, the source list is not empty, and the invocation has returned
ScenarioA ==
    /\ NormalDone
    /\ quotes_list # <<>>
    /\ \A k \in 1..Len(report_text) :
           report_text[k] \notin QuoteMarks \cup SmartQuotes
    /\ \A k \in 1..Len(sentence_patterns) :
           SentenceHits(report_text, sentence_patterns[k]) = <<>>

\* no candidate, no match, no link, and a match rate of "0%"
NothingLinked ==
    /\ report_quotes = <<>>
    /\ all_matches = <<>>
    /\ linked_count = 0
    /\ out_stats.total_quotes_in_report = 0
    /\ out_stats.successful_matches = 0
    /\ out_stats.match_rate = <<"0", "%">>
    /\ processed_text = report_text

\* C16 as stated: in Scenario A nothing is linked, and the markdown is the
\* body of the report, as it was, behind the title and the table of contents.
C16_BodyUnchanged ==
    ScenarioA =>
        /\ NothingLinked
        /\ IsSuffix(TitleSplit(report_text).body, out_md)

\* C16 amended: in Scenario A nothing is linked and the Document Structurer
\* gets the normalized report as it was; the markdown ends with the body as
\* it was when the body has no summary section and no level-2 or level-3
\* heading, and with a body whose headings carry section numbers otherwise.
C16_NothingLinked ==
    ScenarioA =>
        /\ NothingLinked
        /\ \A doc \in {Structure(report_text, NormalizedQuestion,
                                  NormalizedContext)} :
               /\ out_md = doc.markdown
               /\ (doc.toc_entries = <<>> /\ doc.executive_summary_md = <<>>)
                      => IsSuffix(TitleSplit(report_text).body, out_md)
               /\ doc.toc_entries # <<>>
                      => /\ doc.numbered_markdown_body # doc.body
                         /\ IsSuffix(doc.numbered_markdown_body, out_md)

\* Scenario A on a report with a title, a summary and two headings
C16_Witness ==
    /\ ScenarioA
    /\ \E doc \in {Doc} :
           /\ doc.doc_title # ResearchReport
           /\ doc.executive_summary_md # <<>>
           /\ Len(doc.toc_entries) >= 2

\* p is a proper prefix of q
ProperPrefix(p, q) == Len(p) < Len(q) /\ SubSeq(q, 1, Len(p)) = p

\* C17: in the substitution table no pattern comes before a longer pattern
\* that begins with it, so each pattern still matches when its turn comes: a
\* report that begins with the k-th pattern is normalized to one that begins
\* with the k-th fix.
C17_LongerFirst ==
    pc # "start" =>
        /\ \A i, j \in 1..Len(replacements) :
               i < j => ~ProperPrefix(replacements[i][1], replacements[j][1])
        /\ \A k \in 1..Len(replacements) :
               report_in = Corrupted(k) =>
                   report_text = replacements[k][2]
                                 \o <<" ", "a", "n", "d", " ">> \o Segments[1]

\* the texts the matcher compares: the report quotes and the cleaned texts of
\* the source records
ComparedTexts ==
    {report_quotes[k].text : k \in 1..Len(report_quotes)}
    \cup {clean_quote_for_matching(Get(quotes_list[k], "text", <<>>)) :
              k \in 1..Len(quotes_list)}

\* C18: the similarity ratio is symmetric: for the texts a and b the matcher
\* compares, similarity_ratio(a, b) = similarity_ratio(b, a).
C18_Symmetric ==
    report_quotes # <<>> =>
        \A a, b \in ComparedTexts :
            similarity_ratio(a, b) = similarity_ratio(b, a)

\* the level-2 and level-3 headings of the body the TOC is made from
BodyHeadings(doc) == HeadingsFrom(doc.body, 0, TocHashes)

\* how many of the first i headings are level-2 headings
Level2Upto(headings, i) == Cardinality({k \in 1..i : headings[k].hashes = 2})

\* how many level-3 headings there are since the last level-2 heading before
\* the i-th heading, up to the i-th
Level3Since(headings, i) ==
    LET last == Max({k \in 1..i : headings[k].hashes = 2} \cup {0})
    IN  Cardinality({k \in (last + 1)..i : headings[k].hashes = 3})

\* C19: the TOC entries are the headings of the remaining body in their
\* order; the i-th level-2 heading is numbered "i.", a level-3 heading "s.k"
\* with s the number of level-2 headings before it and k the number of
\* level-3 headings since the last level-2 heading, itself included.
C19_NumbersFollowOrder ==
    NormalDone =>
        \A doc \in {Doc} : \A headings \in {BodyHeadings(doc)} :
            /\ Len(doc.toc_entries) = Len(headings)
            /\ \A i \in 1..Len(headings) :
                   /\ doc.toc_entries[i].text = Strip(headings[i].text)
                   /\ doc.toc_entries[i].level = headings[i].hashes - 2
                   /\ doc.toc_entries[i].number =
                          IF headings[i].hashes = 2
                          THEN IntToStr(Level2Upto(headings, i)) \o <<".">>
                          ELSE IntToStr(Level2Upto(headings, i)) \o <<".">>
                               \o IntToStr(Level3Since(headings, i))

\* a level-3 heading before any level-2 heading (0.1), then a level-2 heading
\* (1.), then a level-3 heading again (1.1)
C19_Witness ==
    /\ NormalDone
    /\ \E toc \in {Doc.toc_entries} :
           /\ Len(toc) = 3
           /\ toc[1].number = <<"0", ".", "1">>
           /\ toc[2].number = <<"1", ".">>
           /\ toc[3].number = <<"1", ".", "1">>

\* the headings of the body after renumbering
NumberedHeadings(doc) == HeadingsFrom(doc.numbered_markdown_body, 0, TocHashes)

\* the i-th and the j-th heading have the same level and trimmed text
SameHeading(headings, i, j) ==
    /\ headings[i].hashes = headings[j].hashes
    /\ Strip(headings[i].text) = Strip(headings[j].text)

\* the first heading of the level and trimmed text of the j-th
FirstSame(headings, j) == Min({i \in 1..j : SameHeading(headings, i, j)})

\* C20: every body heading is prefixed with the section number of the first
\* TOC entry of its level and trimmed text; for the later of two such
\* headings this is not the number of its own TOC entry.
C20_FirstEntryNumbers ==
    NormalDone =>
        \A doc \in {Doc} :
            \A headings \in {BodyHeadings(doc)},
               numbered \in {NumberedHeadings(doc)} :
                /\ Len(numbered) = Len(headings)
                /\ \A j \in 1..Len(headings) :
                       \A first \in {FirstSame(headings, j)} :
                           /\ Strip(numbered[j].text) =
                                  doc.toc_entries[first].number \o <<" ">>
                                  \o Strip(headings[j].text)
                           /\ first # j =>
                                  doc.toc_entries[first].number
                                      # doc.toc_entries[j].number

\* two headings of one level and text, each with a TOC entry of its own
C20_Witness ==
    /\ NormalDone
    /\ \E doc \in {Doc} : \E headings \in {BodyHeadings(doc)} :
           \E i, j \in 1..Len(headings) :
               /\ i < j
               /\ SameHeading(headings, i, j)
               /\ j <= Len(doc.toc_entries)
               /\ doc.toc_entries[j].number # doc.toc_entries[i].number

\* C21: the table of contents never holds more than 20 entries: its entries
\* are those of the first 20 level-2/level-3 headings of the body, and the
\* headings after them get none.
C21_AtMostTwenty ==
    NormalDone =>
        \A doc \in {Doc} : \A headings \in {BodyHeadings(doc)} :
            /\ Len(doc.toc_entries) <= 20
            /\ Len(doc.toc_entries) =
                   (IF Len(headings) <= 20 THEN Len(headings) ELSE 20)
            /\ \A i \in 1..Len(doc.toc_entries) :
                   /\ doc.toc_entries[i].text = Strip(headings[i].text)
                   /\ doc.toc_entries[i].level = headings[i].hashes - 2

\* a body of more than 20 headings, with a table of 20 entries
C21_Witness ==
    /\ NormalDone
    /\ \E doc \in {Doc} :
           /\ Len(BodyHeadings(doc)) > 20
           /\ Len(doc.toc_entries) = 20

\* the 1-based indexes at which x occurs in t
Occurrences(t, x) == {i \in 1..Len(t) : OccursAt(t, x, i)}

TableOfContents == <<"#", "#", " ", "T", "a", "b", "l", "e", " ", "o", "f", " ",
                     "C", "o", "n", "t", "e", "n", "t", "s", "\n">>

\* where the summary section that begins with summary_match ends: at the next
\* line that begins a level-2 heading, or at the end of the body
SummaryEnd(body, summary_match) ==
    Min({p \in summary_match.end..Len(body) : H2At(body, p)} \cup {Len(body)})

\* the summary section found at summary_match is taken out of the body and
\* shown once, before the table of contents
SummaryMoved(doc, body, summary_match, finish) ==
    /\ doc.executive_summary_md =
           Strip(Slice(body, summary_match.start, finish))
    /\ doc.body = Slice(body, 0, summary_match.start)
                  \o Slice(body, finish, Len(body))
    /\ Cardinality(Occurrences(out_md, doc.executive_summary_md)) = 1
    /\ \A i \in Occurrences(out_md, doc.executive_summary_md) :
           \A j \in Occurrences(out_md, TableOfContents) : i < j
    /\ \A k \in 1..Len(doc.toc_entries) :
           Lower(doc.toc_entries[k].text) \notin SummaryTitles
    /\ Len(BodyHeadings(doc)) = Len(doc.toc_entries)

\* C22: when a summary heading is found, the span from it to the next
\* level-2 heading (or the end of the body) is taken out of the body and kept
\* separately: it appears once in the markdown, before the table of contents,
\* with its heading as it was and no TOC entry, and the body is the text
\* before the span followed by the text after it.
C22_SummaryMoved ==
    NormalDone =>
        \A body \in {TitleSplit(processed_text).body} :
            \A summary_match \in {FirstSummary(body)} :
                summary_match.ok =>
                    \A doc \in {Doc} :
                        SummaryMoved(doc, body, summary_match,
                                     SummaryEnd(body, summary_match))

\* a summary section with body text before it and a heading after it
C22_Witness ==
    /\ NormalDone
    /\ \E body \in {TitleSplit(processed_text).body} :
           \E summary_match \in {FirstSummary(body)} :
               /\ summary_match.ok
               /\ summary_match.start > 0
               /\ SummaryEnd(body, summary_match) < Len(body)
               /\ Doc.toc_entries # <<>>

\* a block of the document: there when its content is not empty
Block(content, text) == IF content # <<>> THEN text ELSE <<>>

C24_FixedTitle ==
    NormalDone =>
        out_html = <<HtmlHead>> \o ResearchReport \o <<HtmlStyle>>
                   \o out_md \o <<HtmlFoot>>

\* C24 amended: on the normal path the page has the title of the document
\* (the text of its first level-1 heading, "Research Report" without one),
\* the fixed stylesheet, and the markdown output embedded as it is.
C24_DocumentTitle ==
    NormalDone =>
        \A title_match \in {FirstHeading(processed_text, 0, TitleHashes)} :
            out_html =
                <<HtmlHead>>
                \o (IF title_match.ok THEN Strip(title_match.text)
                    ELSE ResearchReport)
                \o <<HtmlStyle>> \o out_md \o <<HtmlFoot>>

\* a page of a document with a title of its own and a linked quote
C24_Witness ==
    /\ NormalDone
    /\ FirstHeading(processed_text, 0, TitleHashes).ok
    /\ linked_count > 0
    /\ \E i \in 1..Len(out_md) : out_md[i] = "\""

\* extract_quotes_from_report has returned its result in this invocation
Extracted == pc \in {"tier1", "fbm", "sort", "rewrite"} \/ NormalDone

\* C25: the result of the Quote Extractor holds no two candidates of the same
\* cleaned text, is sorted ascending by start offset, and holds for each
\* cleaned text the hit of the smallest start offset among the hits of both
\* strategies.
C25_UniqueSortedFirst ==
    Extracted =>
        \A hits \in {AllHits(report_text)} :
            /\ \A i, j \in 1..Len(report_quotes) :
                   i < j => /\ report_quotes[i].text # report_quotes[j].text
                            /\ report_quotes[i].start_pos
                                   <= report_quotes[j].start_pos
            /\ \A i \in 1..Len(report_quotes) :
                   \E k \in 1..Len(hits) : hits[k] = report_quotes[i]
            /\ \A k \in 1..Len(hits) :
                   \E i \in 1..Len(report_quotes) :
                       /\ report_quotes[i].text = hits[k].text
                       /\ report_quotes[i].start_pos <= hits[k].start_pos

\* a report with two hits of one cleaned text, and hits of both strategies
C25_Witness ==
    /\ Extracted
    /\ \E hits \in {AllHits(report_text)} :
           /\ \E k, n \in 1..Len(hits) :
                  /\ hits[k].text = hits[n].text
                  /\ hits[k].start_pos < hits[n].start_pos
           /\ \E k \in 1..Len(hits) :
                  hits[k].original_match[1] \notin QuoteMarks \cup SmartQuotes
    /\ Len(report_quotes) >= 2

\* the hits of the literal-quotation strategy, and of the heuristic-sentence
\* strategy
LiteralHits(text) ==
    UNION {{QuoteHits(text, quote_patterns[k])[n] :
               n \in 1..Len(QuoteHits(text, quote_patterns[k]))} :
              k \in 1..Len(quote_patterns)}
HeuristicHits(text) ==
    UNION {{SentenceHits(text, sentence_patterns[k])[n] :
               n \in 1..Len(SentenceHits(text, sentence_patterns[k]))} :
              k \in 1..Len(sentence_patterns)}

\* C26: every candidate of the literal-quotation strategy has a cleaned
\* length in [20, 500], every candidate of the heuristic-sentence strategy a
\* cleaned length in [30, 400].
C26_LengthsInRange ==
    Extracted =>
        \A literal \in {LiteralHits(report_text)},
           heuristic \in {HeuristicHits(report_text)} :
            \A i \in 1..Len(report_quotes) :
                /\ report_quotes[i] \in literal
                       => Len(report_quotes[i].text) \in 20..500
                /\ report_quotes[i] \in heuristic
                       => Len(report_quotes[i].text) \in 30..400

\* the call of find_best_matches is about to return
CallComplete == pc = "fbm" /\ fb.i > Len(fb.cands)

\* the report quote has no match in the call; the record is in no match of it
Unmatched(q) == \A k \in 1..Len(fb.matches) : fb.matches[k].report_quote # q
Unused(d) == \A k \in 1..Len(fb.matches) : fb.matches[k].db_quote # d

\* the report quote and the record reach the threshold of the call
Qualifies(q, d) ==
    RatioGE(similarity_ratio(q.text,
                clean_quote_for_matching(Get(d, "text", <<>>))), fb.th)

\* C27: when a run of the matching procedure on a pool with unique ids ends,
\* every candidate left unmatched is below the threshold against every
\* source of the pool left unused.
C27_Maximal ==
    (CallComplete /\ UniqueIds(fb.pool)) =>
        \A c \in 1..Len(fb.cands) : \A d \in 1..Len(fb.pool) :
            (Unmatched(fb.cands[c]) /\ Unused(fb.pool[d]))
                => ~Qualifies(fb.cands[c], fb.pool[d])

\* a run that leaves a candidate unmatched and a source unused, the
\* candidate's qualifying source having gone to an earlier candidate
C27_Witness ==
    /\ CallComplete
    /\ UniqueIds(fb.pool)
    /\ \E c \in 1..Len(fb.cands) : \E d, e \in 1..Len(fb.pool) :
           /\ Unmatched(fb.cands[c])
           /\ Unused(fb.pool[d])
           /\ ~Unused(fb.pool[e])
           /\ Qualifies(fb.cands[c], fb.pool[e])

\* C28: the Text Normalizer is idempotent: applied to the report it has
\* normalized, it changes nothing.
C28_Idempotent ==
    pc # "start" => fix_encoding_issues(report_text) = report_text

\* the record carries no id
NoId(d) == "quote_id" \notin DOMAIN d

\* C29: the records of a pool that carry no id share the absent id in
\* used_db_quotes: one run of the matching procedure matches at most one of
\* them, whatever the similarity of the others.
C29_OneIdlessPerCall ==
    pc = "fbm" =>
        \A i, j \in 1..Len(fb.matches) :
            (NoId(fb.matches[i].db_quote) /\ NoId(fb.matches[j].db_quote))
                => i = j

\* a run that ends with one record without id matched, and a candidate left
\* unmatched that reaches the threshold against another record without id
C29_Witness ==
    /\ CallComplete
    /\ \E k \in 1..Len(fb.matches) : NoId(fb.matches[k].db_quote)
    /\ \E c \in 1..Len(fb.cands) : \E d \in 1..Len(fb.pool) :
           /\ Unmatched(fb.cands[c])
           /\ NoId(fb.pool[d])
           /\ Unused(fb.pool[d])
           /\ Qualifies(fb.cands[c], fb.pool[d])

\* the document has this title and is made from this working body alone
MadeFrom(doc, title, body) ==
    /\ doc.doc_title = title
    /\ Slice(out_md, 0, Len(title) + 4) = <<"#", " ">> \o title \o <<"\n", "\n">>
    /\ \A split \in {SummarySplit(body)} :
           /\ doc.executive_summary_md = split.executive_summary_md
           /\ doc.body = split.body
           /\ doc.toc_entries = TocEntries(split.body)

\* the text before the title line, trimmed
BeforeTitle(title_match) == Strip(Slice(processed_text, 0, title_match.start))

\* C30: with a level-1 heading the title is the text of the first one and the
\* working body is the text after its line, so that text before the heading
\* (linked quotes included) that does not occur again after it occurs nowhere
\* in the markdown; without a level-1 heading the title is "Research Report"
\* and the working body is the whole text.
C30_TitleAndBody ==
    NormalDone =>
        \A title_match \in {FirstHeading(processed_text, 0, TitleHashes)} :
            \A doc \in {Doc} :
                IF title_match.ok
                THEN \A rest \in {Slice(processed_text, title_match.end,
                                        Len(processed_text))} :
                         /\ MadeFrom(doc, Strip(title_match.text), rest)
                         /\ \A before \in {BeforeTitle(title_match)} :
                                (before # <<>> /\ Occurrences(rest, before) = {})
                                    => Occurrences(out_md, before) = {}
                ELSE MadeFrom(doc, ResearchReport, processed_text)

\* a report with a linked quote before its title and text after it
C30_Witness ==
    /\ NormalDone
    /\ linked_count > 0
    /\ \E title_match \in {FirstHeading(processed_text, 0, TitleHashes)} :
           /\ title_match.ok
           /\ title_match.end < Len(processed_text)
           /\ \E before \in {BeforeTitle(title_match)} :
                  /\ Occurrences(before, <<"]", "(">>) # {}
                  /\ Occurrences(out_md, before) = {}

====
